---- MODULE Spec2Model ----
(***************************************************************************)
(* A model of the streaming analysis pipeline of compsci512project:        *)
(*   - problemset/programmingerrors/reducer.py  (key-grouped reducer)      *)
(*   - problemset/programmingerrors/mapper.py   (error extractor)          *)
(*   - problemset/languagestructures/mapper.py  (construct extractor)      *)
(*   - problemset/lintrules/mapper.py           (flake8 adapter)           *)
(* Text is modelled as sequences of one-character strings so that strip,   *)
(* split and int() are computed the way Python computes them.              *)
(***************************************************************************)
EXTENDS Integers, Sequences, FiniteSets, TLC

VARIABLES
    \* ---- reducer.py
    stdin,          \* the lines of sys.stdin, in order
    pos,            \* index of the next line the for loop reads
    current_key,    \* None, or the pair <<filename, error_type>>
    current_count,  \* the running total of current_key
    stdout,         \* the lines printed so far
    rpc,            \* "loop" while reading, "done" after the final flush
    \* ---- the two mappers (extractors), run on the same unit
    unit,           \* the source unit: what ast.parse(code) yields for it
    filename,       \* os.environ.get("map_input_file", "unknown")
    spc,            \* languagestructures/mapper.py: "parse", "walk", "done", "crashed"
    stodo,          \* its ast.walk queue
    sout,           \* the lines it has printed
    epc,            \* programmingerrors/mapper.py: "parse", "collect", "names", "walk", "done", "crashed"
    etodo,          \* its ast.walk queue
    eout,           \* the lines it has printed
    defined_names,  \* module-level set filled by NameCollector.visit_Assign
    used_names,     \* module-level list filled by NameCollector.visit_Name
    name_i,         \* index of the next element of used_names the undefined-name loop reads
    mrun,           \* how many units the mappers have been started on
    \* ---- lintrules/mapper.py (the flake8 adapter), invoked once per unit
    lpc,            \* "start", "run", "lines", "done"
    tmpfiles,       \* the temporary files that exist, each named by the invocation that made it
    run,            \* the number of the current invocation
    result,         \* what subprocess.run returned: [status, stdout]
    line_i,         \* index of the next line of result.stdout the loop reads
    lout,           \* the lines the current invocation has printed
    \* ---- languagestructures/analysis/frequency_chart.py: categorize_construct
    construct,      \* the argument, as a sequence of characters
    label_i,        \* index of the CATEGORY_LABELS item the loop tests next
    category,       \* the value returned, None until the call returns
    cpc,            \* "call" while the loop runs, "returned" after
    \* ---- proofofconcept/jobs/reducer.py
    pstdin,         \* the lines of sys.stdin of this reducer, in order
    ppos,           \* index of the next line the for loop reads
    current_file,   \* None, or the file of the pending run
    pcount,         \* count: the running total of the pending run
    pstdout,        \* the lines printed so far
    ppc             \* "loop", "done", or "crashed" after an uncaught ValueError

rvars == <<stdin, pos, current_key, current_count, stdout, rpc>>
svars == <<spc, stodo, sout>>
evars == <<epc, etodo, eout, defined_names, used_names, name_i>>
mvars == <<unit, filename, spc, stodo, sout, epc, etodo, eout,
           defined_names, used_names, name_i, mrun>>

lvars == <<lpc, tmpfiles, run, result, line_i, lout>>

cvars == <<construct, label_i, category, cpc>>

pvars == <<pstdin, ppos, current_file, pcount, pstdout, ppc>>

vars == <<rvars, mvars, lvars, cvars, pvars>>

----------------------------------------------------------------------------
(* Text helpers: Python's str.strip, str.split(sep), int(str), str(int).    *)

TAB == "\t"
SP == " "
None == <<>>

Whitespace == {SP, TAB}
DigitChars == {"0", "1", "2", "3", "4", "5", "6", "7", "8", "9"}

RECURSIVE LStrip(_)
LStrip(s) ==
    IF s = <<>> THEN <<>>
    ELSE IF Head(s) \in Whitespace THEN LStrip(Tail(s)) ELSE s

RECURSIVE RStrip(_)
RStrip(s) ==
    IF s = <<>> THEN <<>>
    ELSE IF s[Len(s)] \in Whitespace THEN RStrip(SubSeq(s, 1, Len(s) - 1)) ELSE s

\* str.strip(): leading and trailing whitespace removed
Strip(s) == RStrip(LStrip(s))

\* str.split(sep): every occurrence of sep separates two (possibly empty) fields
RECURSIVE SplitAcc(_, _, _, _)
SplitAcc(s, sep, cur, acc) ==
    IF s = <<>> THEN Append(acc, cur)
    ELSE IF Head(s) = sep THEN SplitAcc(Tail(s), sep, <<>>, Append(acc, cur))
    ELSE SplitAcc(Tail(s), sep, Append(cur, Head(s)), acc)

Split(s, sep) == SplitAcc(s, sep, <<>>, <<>>)

DigitVal(c) ==
    CASE c = "0" -> 0 [] c = "1" -> 1 [] c = "2" -> 2 [] c = "3" -> 3
      [] c = "4" -> 4 [] c = "5" -> 5 [] c = "6" -> 6 [] c = "7" -> 7
      [] c = "8" -> 8 [] c = "9" -> 9

DigitChar(d) ==
    CASE d = 0 -> "0" [] d = 1 -> "1" [] d = 2 -> "2" [] d = 3 -> "3"
      [] d = 4 -> "4" [] d = 5 -> "5" [] d = 6 -> "6" [] d = 7 -> "7"
      [] d = 8 -> "8" [] d = 9 -> "9"

\* the digits of an int literal after its sign: digits, single underscores
\* allowed between digits only
IsDigits(s) ==
    /\ s # <<>>
    /\ \A i \in 1..Len(s) : s[i] \in DigitChars \cup {"_"}
    /\ s[1] \in DigitChars
    /\ s[Len(s)] \in DigitChars
    /\ \A i \in 1..(Len(s) - 1) : ~(s[i] = "_" /\ s[i + 1] = "_")

Unsigned(s) == IF s # <<>> /\ Head(s) \in {"+", "-"} THEN Tail(s) ELSE s

\* int(s) succeeds (raises no ValueError): optional surrounding whitespace,
\* optional sign, then digits
IsInt(s) == IsDigits(Unsigned(Strip(s)))

RECURSIVE DigitsVal(_, _)
DigitsVal(s, acc) ==
    IF s = <<>> THEN acc
    ELSE IF Head(s) = "_" THEN DigitsVal(Tail(s), acc)
    ELSE DigitsVal(Tail(s), 10 * acc + DigitVal(Head(s)))

\* int(s), for IsInt(s)
IntVal(s) ==
    LET t == Strip(s)
    IN IF t # <<>> /\ Head(t) = "-" THEN 0 - DigitsVal(Tail(t), 0)
       ELSE DigitsVal(Unsigned(t), 0)

RECURSIVE NatStr(_)
NatStr(n) ==
    IF n < 10 THEN <<DigitChar(n)>>
    ELSE Append(NatStr(n \div 10), DigitChar(n % 10))

\* str(n) as an f-string formats an int
IntStr(n) == IF n < 0 THEN <<"-">> \o NatStr(0 - n) ELSE NatStr(n)

----------------------------------------------------------------------------
(* Values of the variables of the programs a specification does not run.    *)

ReducerIdle ==
    /\ stdin = <<>>
    /\ pos = 1
    /\ current_key = None
    /\ current_count = 0
    /\ stdout = <<>>
    /\ rpc = "idle"

MappersIdle ==
    /\ unit = [parse |-> "none", tree |-> <<>>]
    /\ spc = "idle"
    /\ stodo = <<>>
    /\ sout = <<>>
    /\ epc = "idle"
    /\ etodo = <<>>
    /\ eout = <<>>
    /\ defined_names = {}
    /\ used_names = <<>>
    /\ name_i = 1
    /\ mrun = 0

NoResult == [status |-> "none", stdout |-> <<>>]

LintIdle ==
    /\ lpc = "idle"
    /\ tmpfiles = {}
    /\ run = 1
    /\ result = NoResult
    /\ line_i = 1
    /\ lout = <<>>

CategorizerIdle ==
    /\ construct = <<>>
    /\ label_i = 1
    /\ category = None
    /\ cpc = "idle"

PocIdle ==
    /\ pstdin = <<>>
    /\ ppos = 1
    /\ current_file = None
    /\ pcount = 0
    /\ pstdout = <<>>
    /\ ppc = "idle"

----------------------------------------------------------------------------
(* problemset/programmingerrors/reducer.py                                  *)

\* bound: the longest input stream explored
MaxLines == 3

Line3(f, t, c) == f \o <<TAB>> \o t \o <<TAB>> \o c

\* lines the reducer decodes
GoodLines ==
    { Line3(<<"a">>, <<"X">>, <<"1">>),
      Line3(<<"a">>, <<"X">>, <<"2">>),
      Line3(<<"b">>, <<"X">>, <<"1">>),
      Line3(<<"a">>, <<"Y">>, <<"1">>),
      Line3(<<"a">>, <<"X">>, <<"-", "1">>),
      Line3(<<"b">>, <<"Y">>, <<SP, "1", "_", "0">>) }

\* lines the reducer does not decode: blank, two fields ("onlytwo\tfields"),
\* four fields, a non-integer count, and an empty count that strip() removes
BadLines ==
    { <<>>,
      <<"o", TAB, "f">>,
      Line3(<<"a">>, <<"X">>, <<"z">>),
      Line3(<<"a">>, <<"X">>, <<"1">>) \o <<TAB, "1">>,
      Line3(<<"a">>, <<"X">>, <<>>) }

InputLines == GoodLines \cup BadLines

Streams == UNION { [1..n -> InputLines] : n \in 0..MaxLines }

\* faulty variant: a line with more than three fields is accepted
FieldCountAtLeast(parts) == Len(parts) >= 3

\* len(parts) != 3 -> continue
FieldCountOk(parts) == Len(parts) = 3

\* try: count = int(count_str) / except ValueError: continue
CountOk(count_str) == IsInt(count_str)

\* faulty variant: keys compared by filename only
SameFile(cur, key) == cur # None /\ cur[1] = key[1]

\* current_key == key
SameKey(cur, key) == cur = key

\* faulty variant: the running total is overwritten instead of added to
Overwrite(total, count) == count

\* faulty variant: the count is subtracted from the running total
Subtract(total, count) == total - count

\* current_count += count
Accumulate(total, count) == total + count

\* faulty variant: the record is printed tag first
RecordTagFirst(key, total) == Line3(key[2], key[1], IntStr(total))

\* print(f"{current_key[0]}\t{current_key[1]}\t{current_count}")
Record(key, total) == Line3(key[1], key[2], IntStr(total))

\* faulty variant: a record is printed only for a positive total
EmitIfPositive(out, key, total) ==
    IF key # None /\ total > 0 THEN Append(out, Record(key, total)) ELSE out

\* if current_key is not None: print(...)
Emit(out, key, total) == IF key # None THEN Append(out, Record(key, total)) ELSE out

\* faulty variant: a new run starts at zero, the count of its first line lost
ReduceLineFromZero(st, raw) ==
    LET line == Strip(raw)
        parts == Split(line, TAB)
    IN  IF line = <<>> THEN st
        ELSE IF ~FieldCountOk(parts) THEN st
        ELSE IF ~CountOk(parts[3]) THEN st
        ELSE LET key == <<parts[1], parts[2]>>
             IN  IF SameKey(st.key, key)
                 THEN [st EXCEPT !.count = Accumulate(st.count, IntVal(parts[3]))]
                 ELSE [key |-> key, count |-> 0,
                       out |-> Emit(st.out, st.key, st.count)]

\* one iteration of "for line in sys.stdin" on state st = [key, count, out]
ReduceLine(st, raw) ==
    LET line == Strip(raw)
        parts == Split(line, TAB)
    IN  IF line = <<>> THEN st
        ELSE IF ~FieldCountOk(parts) THEN st
        ELSE IF ~CountOk(parts[3]) THEN st
        ELSE LET count == IntVal(parts[3])
                 key == <<parts[1], parts[2]>>
             IN  IF SameKey(st.key, key)
                 THEN [st EXCEPT !.count = Accumulate(st.count, count)]
                 ELSE [key |-> key, count |-> count,
                       out |-> Emit(st.out, st.key, st.count)]

ReducerInit ==
    /\ stdin \in Streams
    /\ pos = 1
    /\ current_key = None
    /\ current_count = 0
    /\ stdout = <<>>
    /\ rpc = "loop"
    /\ filename = <<>>
    /\ MappersIdle
    /\ LintIdle
    /\ CategorizerIdle
    /\ PocIdle

\* the body of the for loop, for the next line of stdin
ReadLine ==
    /\ rpc = "loop"
    /\ pos <= Len(stdin)
    /\ LET st == ReduceLine([key |-> current_key, count |-> current_count,
                             out |-> stdout], stdin[pos])
       IN  /\ current_key' = st.key
           /\ current_count' = st.count
           /\ stdout' = st.out
    /\ pos' = pos + 1
    /\ UNCHANGED <<stdin, rpc, mvars, lvars, cvars, pvars>>

\* end of input: the final flush after the loop
EndOfInput ==
    /\ rpc = "loop"
    /\ pos > Len(stdin)
    /\ stdout' = Emit(stdout, current_key, current_count)
    /\ rpc' = "done"
    /\ UNCHANGED <<stdin, pos, current_key, current_count, mvars, lvars, cvars, pvars>>

ReducerNext == ReadLine \/ EndOfInput

SpecReducer == ReducerInit /\ [][ReducerNext]_vars

----------------------------------------------------------------------------
(* Reference notions for the reducer's contract, stated on the raw input.   *)

\* a line that decodes: not blank, exactly three tab-separated fields, the
\* third a base-10 integer
Decodable(raw) ==
    LET p == Split(Strip(raw), TAB)
    IN  Strip(raw) # <<>> /\ Len(p) = 3 /\ IsInt(p[3])

KeyOf(raw) == LET p == Split(Strip(raw), TAB) IN <<p[1], p[2]>>
CountOf(raw) == IntVal(Split(Strip(raw), TAB)[3])

AllDecodable(lines) == \A i \in 1..Len(lines) : Decodable(lines[i])

\* all lines sharing a key are contiguous
Grouped(lines) ==
    \A i, j \in 1..Len(lines) :
        (i < j /\ KeyOf(lines[i]) = KeyOf(lines[j]))
            => \A k \in i..j : KeyOf(lines[k]) = KeyOf(lines[i])

RECURSIVE SumCounts(_, _)
\* the sum of the counts of lines[i], i \in idx
SumCounts(lines, idx) ==
    IF idx = {} THEN 0
    ELSE LET i == CHOOSE x \in idx : TRUE
         IN  CountOf(lines[i]) + SumCounts(lines, idx \ {i})

KeyTotal(lines, key) ==
    SumCounts(lines, {i \in 1..Len(lines) : KeyOf(lines[i]) = key})

\* the positions where a maximal run of equal keys begins
RunStarts(lines) ==
    {i \in 1..Len(lines) : i = 1 \/ KeyOf(lines[i - 1]) # KeyOf(lines[i])}

\* the last position of the run that begins at s
RunEnd(lines, s) ==
    CHOOSE e \in s..Len(lines) :
        /\ \A k \in s..e : KeyOf(lines[k]) = KeyOf(lines[s])
        /\ (e = Len(lines) \/ KeyOf(lines[e + 1]) # KeyOf(lines[s]))

\* the j-th run start, in input order
NthStart(lines, j) ==
    CHOOSE s \in RunStarts(lines) :
        Cardinality({t \in RunStarts(lines) : t <= s}) = j

\* one record per maximal run, in input order, carrying the run's sum
RunRecords(lines) ==
    [j \in 1..Cardinality(RunStarts(lines)) |->
        LET s == NthStart(lines, j)
        IN  Line3(KeyOf(lines[s])[1], KeyOf(lines[s])[2],
                  IntStr(SumCounts(lines, s..RunEnd(lines, s))))]

\* C1: for grouped, wholly decodable input the reducer emits exactly one
\* record per distinct input key (none omitted, none twice) and each record's
\* count is the sum of the counts of all input lines with that key.
C1_ReducerExactness ==
    (rpc = "done" /\ AllDecodable(stdin) /\ Grouped(stdin)) =>
        /\ AllDecodable(stdout)
        /\ {KeyOf(stdout[i]) : i \in 1..Len(stdout)}
               = {KeyOf(stdin[i]) : i \in 1..Len(stdin)}
        /\ \A i, j \in 1..Len(stdout) :
               KeyOf(stdout[i]) = KeyOf(stdout[j]) => i = j
        /\ \A i \in 1..Len(stdout) :
               CountOf(stdout[i]) = KeyTotal(stdin, KeyOf(stdout[i]))

C1_Witness ==
    /\ rpc = "done"
    /\ stdin = << Line3(<<"a">>, <<"X">>, <<"1">>),
                  Line3(<<"a">>, <<"X">>, <<"2">>),
                  Line3(<<"b">>, <<"X">>, <<"1">>) >>
    /\ stdout = << Line3(<<"a">>, <<"X">>, <<"3">>),
                   Line3(<<"b">>, <<"X">>, <<"1">>) >>

\* C2: for any wholly decodable input, grouped or not, the reducer emits
\* exactly one record per maximal contiguous run of equal keys: runs of the
\* same key separated by another key are not merged, and no run is split.
C2_RunBoundaries ==
    (rpc = "done" /\ AllDecodable(stdin)) => stdout = RunRecords(stdin)

C2_Witness ==
    /\ rpc = "done"
    /\ stdin = << Line3(<<"a">>, <<"X">>, <<"1">>),
                  Line3(<<"b">>, <<"X">>, <<"1">>),
                  Line3(<<"a">>, <<"X">>, <<"1">>) >>
    /\ stdout = stdin

\* C3: a malformed line (blank, not exactly three fields, non-integer count)
\* prints nothing, raises nothing and leaves current_key and current_count
\* unchanged, and the final output equals the output for the input with all
\* malformed lines deleted.
C3_MalformedTransparent ==
    [][ /\ (rpc = "loop" /\ pos <= Len(stdin) /\ ~Decodable(stdin[pos])) =>
              /\ UNCHANGED <<current_key, current_count, stdout>>
              /\ rpc' = "loop"
        /\ rpc' = "done" => stdout' = RunRecords(SelectSeq(stdin, Decodable))
      ]_vars

C3_Witness ==
    /\ rpc = "done"
    /\ stdin = << Line3(<<"a">>, <<"X">>, <<"1">>),
                  <<"o", TAB, "f">>,
                  Line3(<<"a">>, <<"X">>, <<"2">>) >>
    /\ stdout = << Line3(<<"a">>, <<"X">>, <<"3">>) >>

\* the first n elements of seq are exactly pre
IsPrefix(pre, seq) == Len(pre) <= Len(seq) /\ SubSeq(seq, 1, Len(pre)) = pre

\* C15: records are emitted in the order their runs begin in the input; a
\* run's record is emitted only when a decodable line with a different key
\* arrives or input ends; at end of input the pending (key, total) is emitted
\* exactly once if and only if at least one decodable line was read, and
\* nothing is emitted for empty or wholly malformed input.
C15_EmissionOrderAndFlush ==
    [][ /\ IsPrefix(stdout', RunRecords(SelectSeq(stdin, Decodable)))
        /\ stdout' # stdout =>
              /\ current_key # None
              /\ stdout' = Append(stdout, Record(current_key, current_count))
              /\ \/ /\ pos <= Len(stdin)
                    /\ Decodable(stdin[pos])
                    /\ KeyOf(stdin[pos]) # current_key
                 \/ pos > Len(stdin) /\ rpc' = "done"
        /\ rpc' = "done" =>
              IF \E i \in 1..Len(stdin) : Decodable(stdin[i])
              THEN stdout' = Append(stdout, Record(current_key, current_count))
              ELSE stdout' = <<>> /\ stdout = <<>>
      ]_vars

C15_Witness ==
    /\ rpc = "done"
    /\ stdin = << <<"o", TAB, "f">>,
                  Line3(<<"b">>, <<"X">>, <<"1">>),
                  Line3(<<"a">>, <<"Y">>, <<"1">>) >>
    /\ stdout = << Line3(<<"b">>, <<"X">>, <<"1">>),
                   Line3(<<"a">>, <<"Y">>, <<"1">>) >>

----------------------------------------------------------------------------
(* Parse trees.  A node is a record [kind, id, pre, body, post]:            *)
(*   kind  the ast class name                                               *)
(*   id    the node's string attribute (Name.id, alias.name, the module of  *)
(*         an ImportFrom with "" for None, FunctionDef.name, the repr of a  *)
(*         Constant's value)                                                *)
(*   pre, body, post   the child nodes, in the order of the class's _fields *)
(*         (ast.iter_child_nodes): pre before the statement body, post      *)
(*         after it (orelse, handlers, finalbody).                          *)

Node(kind, id, pre, body, post) ==
    [kind |-> kind, id |-> id, pre |-> pre, body |-> body, post |-> post]
Leaf(kind, id) == Node(kind, id, <<>>, <<>>, <<>>)

Load == Leaf("Load", "")
Store == Leaf("Store", "")
NameLoad(id) == Node("Name", id, <<Load>>, <<>>, <<>>)
NameStore(id) == Node("Name", id, <<Store>>, <<>>, <<>>)
Const(v) == Leaf("Constant", v)
\* expressions
BinOp(left, op, right) == Node("BinOp", "", <<left, Leaf(op, ""), right>>, <<>>, <<>>)
BoolOp(op, values) == Node("BoolOp", "", <<Leaf(op, "")>> \o values, <<>>, <<>>)
UnaryOp(op, operand) == Node("UnaryOp", "", <<Leaf(op, ""), operand>>, <<>>, <<>>)
Compare(left, ops, comparators) ==
    Node("Compare", "",
         <<left>> \o [i \in 1..Len(ops) |-> Leaf(ops[i], "")] \o comparators,
         <<>>, <<>>)
Call(func, args) == Node("Call", "", <<func>> \o args, <<>>, <<>>)
ListLit(elts) == Node("List", "", elts \o <<Load>>, <<>>, <<>>)
DictLit(keys, values) == Node("Dict", "", keys \o values, <<>>, <<>>)
SetLit(elts) == Node("Set", "", elts, <<>>, <<>>)
\* statements
ExprStmt(value) == Node("Expr", "", <<value>>, <<>>, <<>>)
ReturnStmt(value) == Node("Return", "", value, <<>>, <<>>)
PassStmt == Leaf("Pass", "")
Assign(targets, value) == Node("Assign", "", targets \o <<value>>, <<>>, <<>>)
Import(names) ==
    Node("Import", "", [i \in 1..Len(names) |-> Leaf("alias", names[i])], <<>>, <<>>)
ImportFrom(module, names) ==
    Node("ImportFrom", module,
         [i \in 1..Len(names) |-> Leaf("alias", names[i])], <<>>, <<>>)
If(test, body, orelse) == Node("If", "", <<test>>, body, orelse)
For(target, iter, body) == Node("For", "", <<target, iter>>, body, <<>>)
While(test, body) == Node("While", "", <<test>>, body, <<>>)
FunctionDef(name, body) == Node("FunctionDef", name, <<Leaf("arguments", "")>>, body, <<>>)
FunctionDefArgs(name, params, body) ==
    Node("FunctionDef", name,
         <<Node("arguments", "", [i \in 1..Len(params) |-> Leaf("arg", params[i])],
                <<>>, <<>>)>>,
         body, <<>>)
TupleStore(elts) == Node("Tuple", "", elts \o <<Store>>, <<>>, <<>>)
TupleLoad(elts) == Node("Tuple", "", elts \o <<Load>>, <<>>, <<>>)
AugAssign(target, op, value) ==
    Node("AugAssign", "", <<target, Leaf(op, ""), value>>, <<>>, <<>>)
ExceptHandler(type, body) == Node("ExceptHandler", "", type, body, <<>>)
Try(body, handlers) == Node("Try", "", <<>>, body, handlers)
Module(body) == Node("Module", "", <<>>, body, <<>>)

\* ast.iter_child_nodes(node)
Children(node) == node.pre \o node.body \o node.post

\* accessors of the fields the mappers read
OpOf(node) == IF node.kind = "BoolOp" \/ node.kind = "UnaryOp"
              THEN node.pre[1].kind ELSE node.pre[2].kind
RightOf(node) == node.pre[3]
OpsOf(node) == [i \in 1..((Len(node.pre) - 1) \div 2) |-> node.pre[i + 1].kind]
FuncOf(node) == node.pre[1]
TargetsOf(node) == SubSeq(node.pre, 1, Len(node.pre) - 1)
IsLoad(node) == node.pre # <<>> /\ node.pre[1].kind = "Load"

\* type(op).__name__.upper()
UpperOp(op) ==
    CASE op = "Add" -> "ADD" [] op = "Sub" -> "SUB" [] op = "Div" -> "DIV"
      [] op = "Pow" -> "POW" [] op = "Mod" -> "MOD" [] op = "Mult" -> "MULT"
      [] op = "And" -> "AND" [] op = "Or" -> "OR"
      [] op = "Not" -> "NOT" [] op = "USub" -> "USUB" [] op = "UAdd" -> "UADD"
      [] op = "Lt" -> "LT" [] op = "Gt" -> "GT" [] op = "Eq" -> "EQ"
      [] op = "NotEq" -> "NOTEQ" [] op = "LtE" -> "LTE" [] op = "GtE" -> "GTE"
      [] op = "In" -> "IN" [] op = "Is" -> "IS"

----------------------------------------------------------------------------
(* Source units.  A unit is what ast.parse(code) does on its text: it       *)
(* returns a tree, or raises.  compile() raises SyntaxError for invalid     *)
(* source, ValueError for source containing null bytes (interpreters before *)
(* 3.11.4), and MemoryError or RecursionError for source nested too deeply  *)
(* for the parser.                                                          *)

\* bound: the longest generated function body
MaxBody == 3

Parsed(tree) == [parse |-> "ok", tree |-> tree]
Raises(exc) == [parse |-> exc, tree |-> Module(<<>>)]

Print2 == ExprStmt(Call(NameLoad("print"), <<Const("2")>>))
Return1 == ReturnStmt(<<Const("1")>>)

\* the statements generated function bodies are made of
BodyStmts == {Return1, Print2, PassStmt}

Bodies == UNION { [1..n -> BodyStmts] : n \in 1..MaxBody }

\* def f(): <body>
FunctionUnits == { Parsed(Module(<<FunctionDef("f", b)>>)) : b \in Bodies }

\* if a < b < c: pass
UnitIfChain ==
    Parsed(Module(<< If(Compare(NameLoad("a"), <<"Lt", "Lt">>,
                                <<NameLoad("b"), NameLoad("c")>>),
                        <<PassStmt>>, <<>>) >>))

\* import os, sys
\* from math import sqrt
\* from . import x
UnitImports ==
    Parsed(Module(<< Import(<<"os", "sys">>),
                     ImportFrom("math", <<"sqrt">>),
                     ImportFrom("", <<"x">>) >>))

\* x = 1 + 2 / 0
\* y = not x and -x
UnitOperators ==
    Parsed(Module(<<
        Assign(<<NameStore("x")>>,
               BinOp(Const("1"), "Add", BinOp(Const("2"), "Div", Const("0")))),
        Assign(<<NameStore("y")>>,
               BoolOp("And", <<UnaryOp("Not", NameLoad("x")),
                               UnaryOp("USub", NameLoad("x"))>>)) >>))

\* if x == 1:
\*     pass
\* elif y:
\*     z = [1]
\* else:
\*     z = {1: 2}
UnitIfElse ==
    Parsed(Module(<<
        If(Compare(NameLoad("x"), <<"Eq">>, <<Const("1")>>), <<PassStmt>>,
           << If(NameLoad("y"),
                 <<Assign(<<NameStore("z")>>, ListLit(<<Const("1")>>))>>,
                 <<Assign(<<NameStore("z")>>,
                          DictLit(<<Const("1")>>, <<Const("2")>>))>>) >>) >>))

\* for i in {1}:
\*     while i:
\*         pass
UnitLoops ==
    Parsed(Module(<<
        For(NameStore("i"), SetLit(<<Const("1")>>),
            << While(NameLoad("i"), <<PassStmt>>) >>) >>))

\* try:
\*     x = 1
\* except:
\*     pass
\* except ValueError:
\*     print(x)
UnitTry ==
    Parsed(Module(<<
        Try(<<Assign(<<NameStore("x")>>, Const("1"))>>,
            << ExceptHandler(<<>>, <<PassStmt>>),
               ExceptHandler(<<NameLoad("ValueError")>>,
                             <<ExprStmt(Call(NameLoad("print"),
                                             <<NameLoad("x")>>))>>) >>) >>))

\* def g():
\*     def h():
\*         return 1
\*         pass
\*         pass
\*     return h
\*     return 1
UnitNested ==
    Parsed(Module(<<
        FunctionDef("g",
            << FunctionDef("h", <<Return1, PassStmt, PassStmt>>),
               ReturnStmt(<<NameLoad("h")>>),
               Return1 >>) >>))

\* y = u + u
\* print(u, v)
\* y = len(y)
UnitUndefined ==
    Parsed(Module(<<
        Assign(<<NameStore("y")>>, BinOp(NameLoad("u"), "Add", NameLoad("u"))),
        ExprStmt(Call(NameLoad("print"), <<NameLoad("u"), NameLoad("v")>>)),
        Assign(<<NameStore("y")>>, Call(NameLoad("len"), <<NameLoad("y")>>)) >>))

\* x = 1 < 2 <= 3 != 4
\* y = x < 1
UnitCompare ==
    Parsed(Module(<<
        Assign(<<NameStore("x")>>,
               Compare(Const("1"), <<"Lt", "LtE", "NotEq">>,
                       <<Const("2"), Const("3"), Const("4")>>)),
        Assign(<<NameStore("y")>>,
               Compare(NameLoad("x"), <<"Lt">>, <<Const("1")>>)) >>))

\* s = "abc            (an unterminated string literal)
UnitUnterminated == Raises("SyntaxError")

\* x = 1<NUL>           (a null byte in the source)
UnitNullByte == Raises("ValueError")

\* x = ------ ... ------1       (200000 nested unary minus: the parser's
\*                               stack overflows)
UnitTooDeep == Raises("MemoryError")

\* import a
\* def h(b):
\*     return b + z
\* for i in [1]:
\*     print(i)
\* c, u = 1, 2
\* w += 1
\* print(a, h, c, w)
\* z = 1
UnitBindings ==
    Parsed(Module(<<
        Import(<<"a">>),
        FunctionDefArgs("h", <<"b">>,
            <<ReturnStmt(<<BinOp(NameLoad("b"), "Add", NameLoad("z"))>>)>>),
        For(NameStore("i"), ListLit(<<Const("1")>>),
            <<ExprStmt(Call(NameLoad("print"), <<NameLoad("i")>>))>>),
        Assign(<<TupleStore(<<NameStore("c"), NameStore("u")>>)>>,
               TupleLoad(<<Const("1"), Const("2")>>)),
        AugAssign(NameStore("w"), "Add", Const("1")),
        ExprStmt(Call(NameLoad("print"),
                      <<NameLoad("a"), NameLoad("h"), NameLoad("c"), NameLoad("w")>>)),
        Assign(<<NameStore("z")>>, Const("1")) >>))

Units ==
    FunctionUnits \cup
    { UnitIfChain, UnitImports, UnitOperators, UnitIfElse, UnitLoops, UnitTry,
      UnitNested, UnitUndefined, UnitCompare, UnitBindings,
      UnitUnterminated, UnitNullByte, UnitTooDeep }

\* map_input_file, or its default "unknown"
Filenames == { <<"unknown">>, <<"s1", ".", "py">> }

----------------------------------------------------------------------------
(* problemset/languagestructures/mapper.py                                  *)

\* print(f"{filename}\t<tag>\t1")
Obs(fn, tag) == Line3(fn, tag, <<"1">>)

\* print(f"{filename}\tIMPORT\t{alias.name}\t1") for alias in node.names
ImportLines(fn, node) ==
    [i \in 1..Len(node.pre) |->
        fn \o <<TAB, "IMPORT", TAB, node.pre[i].id, TAB, "1">>]

\* module = node.module if node.module else "UNKNOWN_MODULE"
ModuleOf(node) == IF node.id # "" THEN node.id ELSE "UNKNOWN_MODULE"

\* print(f"{filename}\tIMPORT_FROM\t{module}.{alias.name}\t1")
ImportFromLines(fn, node) ==
    [i \in 1..Len(node.pre) |->
        fn \o <<TAB, "IMPORT_FROM", TAB, ModuleOf(node), ".", node.pre[i].id,
                TAB, "1">>]

\* faulty variant: one record per comparison expression, for its first operator
CompareOnce(fn, node) == <<Obs(fn, <<"COMPARE_OP_", UpperOp(OpsOf(node)[1])>>)>>

\* for op in node.ops: print COMPARE_OP_<kind>
CompareLines(fn, node) ==
    [i \in 1..Len(OpsOf(node)) |-> Obs(fn, <<"COMPARE_OP_", UpperOp(OpsOf(node)[i])>>)]

\* faulty variant: CONTROL_ELSE is printed for every if
IfLinesElseAlways(fn, node) ==
    <<Obs(fn, <<"CONTROL_IF">>), Obs(fn, <<"CONTROL_ELSE">>)>>

\* CONTROL_IF, and CONTROL_ELSE if node.orelse
IfLines(fn, node) ==
    <<Obs(fn, <<"CONTROL_IF">>)>>
        \o (IF node.post # <<>> THEN <<Obs(fn, <<"CONTROL_ELSE">>)>> ELSE <<>>)

When(cond, lines) == IF cond THEN lines ELSE <<>>

\* the body of "for node in ast.walk(tree)": what one node prints
StructLines(fn, node) ==
       When(node.kind = "Import", ImportLines(fn, node))
    \o When(node.kind = "ImportFrom", ImportFromLines(fn, node))
    \o When(node.kind = "BinOp", <<Obs(fn, <<"OPERATOR_", UpperOp(OpOf(node))>>)>>)
    \o When(node.kind = "BoolOp", <<Obs(fn, <<"BOOLEAN_OP_", UpperOp(OpOf(node))>>)>>)
    \o When(node.kind = "UnaryOp", <<Obs(fn, <<"UNARY_OP_", UpperOp(OpOf(node))>>)>>)
    \o When(node.kind = "Compare", CompareLines(fn, node))
    \o When(node.kind = "If", IfLines(fn, node))
    \o When(node.kind = "For", <<Obs(fn, <<"CONTROL_FOR">>)>>)
    \o When(node.kind = "While", <<Obs(fn, <<"CONTROL_WHILE">>)>>)
    \o When(node.kind = "FunctionDef", <<Obs(fn, <<"FUNCTION_DEF">>)>>)
    \o When(node.kind = "List", <<Obs(fn, <<"DATA_LIST">>)>>)
    \o When(node.kind = "Dict", <<Obs(fn, <<"DATA_DICT">>)>>)
    \o When(node.kind = "Set", <<Obs(fn, <<"DATA_SET">>)>>)

\* tree = ast.parse(code) succeeds
SParseOk ==
    /\ spc = "parse"
    /\ unit.parse = "ok"
    /\ stodo' = <<unit.tree>>
    /\ spc' = "walk"
    /\ UNCHANGED <<sout, rvars, unit, filename, mrun, evars, lvars, cvars, pvars>>

\* except SyntaxError: print SYNTAX_ERROR; sys.exit(0)
SParseSyntaxError ==
    /\ spc = "parse"
    /\ unit.parse = "SyntaxError"
    /\ sout' = Append(sout, Obs(filename, <<"SYNTAX_ERROR">>))
    /\ spc' = "done"
    /\ UNCHANGED <<stodo, rvars, unit, filename, mrun, evars, lvars, cvars, pvars>>

\* any other exception of ast.parse is not caught: traceback, exit status 1
SParseUncaught ==
    /\ spc = "parse"
    /\ unit.parse \notin {"ok", "SyntaxError"}
    /\ spc' = "crashed"
    /\ UNCHANGED <<stodo, sout, rvars, unit, filename, mrun, evars, lvars, cvars, pvars>>

\* one iteration of "for node in ast.walk(tree)": ast.walk pops the queue's
\* head, appends its children and yields it
SWalk ==
    /\ spc = "walk"
    /\ stodo # <<>>
    /\ stodo' = Tail(stodo) \o Children(Head(stodo))
    /\ sout' = sout \o StructLines(filename, Head(stodo))
    /\ UNCHANGED <<spc, rvars, unit, filename, mrun, evars, lvars, cvars, pvars>>

\* the walk is exhausted: the script ends
SExit ==
    /\ spc = "walk"
    /\ stodo = <<>>
    /\ spc' = "done"
    /\ UNCHANGED <<stodo, sout, rvars, unit, filename, mrun, evars, lvars, cvars, pvars>>

StructNext == SParseOk \/ SParseSyntaxError \/ SParseUncaught \/ SWalk \/ SExit

----------------------------------------------------------------------------
(* problemset/programmingerrors/mapper.py                                   *)

\* hasattr(__builtins__, name), for the names the units use
Builtins == {"print", "ValueError", "int", "len"}

\* name.upper()
UpperName(n) ==
    CASE n = "a" -> "A" [] n = "b" -> "B" [] n = "c" -> "C" [] n = "h" -> "H"
      [] n = "i" -> "I" [] n = "x" -> "X" [] n = "y" -> "Y" [] n = "z" -> "Z"
      [] n = "u" -> "U" [] n = "v" -> "V" [] n = "w" -> "W"
      [] n = "print" -> "PRINT" [] n = "ValueError" -> "VALUEERROR"
      [] OTHER -> n

RECURSIVE UsedNamesOf(_)
RECURSIVE UsedNamesIn(_)
\* NameCollector.visit on node: the Load names, in visiting order
UsedNamesOf(node) ==
    (IF node.kind = "Name" /\ IsLoad(node) THEN <<node.id>> ELSE <<>>)
        \o UsedNamesIn(Children(node))
\* generic_visit: the children, in field order
UsedNamesIn(nodes) ==
    IF nodes = <<>> THEN <<>>
    ELSE UsedNamesOf(Head(nodes)) \o UsedNamesIn(Tail(nodes))

RECURSIVE DefinedNamesStore(_, _)
\* faulty variant: every name that is stored to counts as defined
DefinedNamesStore(node, rest) ==
    (IF node.kind = "Name" /\ ~IsLoad(node) THEN {node.id} ELSE {})
        \cup (IF Children(node) \o rest = <<>> THEN {}
              ELSE DefinedNamesStore(Head(Children(node) \o rest),
                                     Tail(Children(node) \o rest)))

\* faulty variant of the collector, from one node
DefinedNamesAnyStore(node) == DefinedNamesStore(node, <<>>)

RECURSIVE DefinedNamesOf(_)
RECURSIVE DefinedNamesIn(_)
\* NameCollector.visit_Assign: the targets that are plain names
DefinedNamesOf(node) ==
    (IF node.kind = "Assign"
     THEN {TargetsOf(node)[i].id :
              i \in {j \in 1..Len(TargetsOf(node)) : TargetsOf(node)[j].kind = "Name"}}
     ELSE {})
        \cup DefinedNamesIn(Children(node))
DefinedNamesIn(nodes) ==
    IF nodes = <<>> THEN {}
    ELSE DefinedNamesOf(Head(nodes)) \cup DefinedNamesIn(Tail(nodes))

\* faulty variant: every statement after the return is flagged (no break)
RECURSIVE UnreachableEach(_, _, _)
UnreachableEach(fn, body, found_return) ==
    IF body = <<>> THEN <<>>
    ELSE IF Head(body).kind = "Return" THEN UnreachableEach(fn, Tail(body), TRUE)
    ELSE IF found_return
         THEN <<Obs(fn, <<"ERROR_UNREACHABLE_CODE">>)>>
                  \o UnreachableEach(fn, Tail(body), found_return)
         ELSE UnreachableEach(fn, Tail(body), found_return)

\* for stmt in node.body: a Return sets found_return and continues; the first
\* other statement after it prints once and breaks
RECURSIVE Unreachable(_, _, _)
Unreachable(fn, body, found_return) ==
    IF body = <<>> THEN <<>>
    ELSE IF Head(body).kind = "Return" THEN Unreachable(fn, Tail(body), TRUE)
    ELSE IF found_return THEN <<Obs(fn, <<"ERROR_UNREACHABLE_CODE">>)>>
    ELSE Unreachable(fn, Tail(body), found_return)

\* faulty variant: a print call is not reported
PrintIgnored(fn, node) == <<>>

\* isinstance(node, ast.Call) and isinstance(node.func, ast.Name)
\* and node.func.id == "print"
PrintUsed(fn, node) ==
    When(node.kind = "Call" /\ FuncOf(node).kind = "Name" /\ FuncOf(node).id = "print",
         <<Obs(fn, <<"WARNING_PRINT_USED">>)>>)

\* faulty variant: "or" in place of "and" in the test
UndefinedLinesOr(fn, name, defined) ==
    When(name \notin defined \/ name \notin Builtins,
         <<Obs(fn, <<"ERROR_NAME_UNDEFINED_", UpperName(name)>>)>>)

\* if name not in defined_names and not hasattr(__builtins__, name): print(...)
UndefinedLines(fn, name, defined) ==
    When(name \notin defined /\ name \notin Builtins,
         <<Obs(fn, <<"ERROR_NAME_UNDEFINED_", UpperName(name)>>)>>)

\* the body of "for node in ast.walk(tree)": what one node prints
ErrorLines(fn, node) ==
       When(node.kind = "ExceptHandler" /\ node.pre = <<>>,
            <<Obs(fn, <<"ERROR_BARE_EXCEPT">>)>>)
    \o When(node.kind = "ExceptHandler" /\ Len(node.body) = 0,
            <<Obs(fn, <<"ERROR_EMPTY_EXCEPT">>)>>)
    \o When(node.kind = "BinOp" /\ OpOf(node) = "Div"
                /\ RightOf(node).kind = "Constant" /\ RightOf(node).id = "0",
            <<Obs(fn, <<"ERROR_DIV_BY_ZERO">>)>>)
    \o When(node.kind = "Pass", <<Obs(fn, <<"ERROR_USELESS_PASS">>)>>)
    \o When(node.kind = "FunctionDef", Unreachable(fn, node.body, FALSE))
    \o PrintUsed(fn, node)

\* tree = ast.parse(code) succeeds
EParseOk ==
    /\ epc = "parse"
    /\ unit.parse = "ok"
    /\ epc' = "collect"
    /\ UNCHANGED <<etodo, eout, defined_names, used_names, name_i,
                   rvars, unit, filename, mrun, svars, lvars, cvars, pvars>>

\* except SyntaxError: print SYNTAX_ERROR; sys.exit(0)
EParseSyntaxError ==
    /\ epc = "parse"
    /\ unit.parse = "SyntaxError"
    /\ eout' = Append(eout, Obs(filename, <<"SYNTAX_ERROR">>))
    /\ epc' = "done"
    /\ UNCHANGED <<etodo, defined_names, used_names, name_i,
                   rvars, unit, filename, mrun, svars, lvars, cvars, pvars>>

\* any other exception of ast.parse is not caught: traceback, exit status 1
EParseUncaught ==
    /\ epc = "parse"
    /\ unit.parse \notin {"ok", "SyntaxError"}
    /\ epc' = "crashed"
    /\ UNCHANGED <<etodo, eout, defined_names, used_names, name_i,
                   rvars, unit, filename, mrun, svars, lvars, cvars, pvars>>

\* collector.visit(tree)
ECollect ==
    /\ epc = "collect"
    /\ defined_names' = defined_names \cup DefinedNamesOf(unit.tree)
    /\ used_names' = used_names \o UsedNamesOf(unit.tree)
    /\ name_i' = 1
    /\ epc' = "names"
    /\ UNCHANGED <<etodo, eout, rvars, unit, filename, mrun, svars, lvars, cvars, pvars>>

\* one iteration of "for name in used_names"
ECheckName ==
    /\ epc = "names"
    /\ name_i <= Len(used_names)
    /\ eout' = eout \o UndefinedLines(filename, used_names[name_i], defined_names)
    /\ name_i' = name_i + 1
    /\ UNCHANGED <<epc, etodo, defined_names, used_names,
                   rvars, unit, filename, mrun, svars, lvars, cvars, pvars>>

\* the name loop is exhausted: ast.walk(tree) starts
EStartWalk ==
    /\ epc = "names"
    /\ name_i > Len(used_names)
    /\ etodo' = <<unit.tree>>
    /\ epc' = "walk"
    /\ UNCHANGED <<eout, defined_names, used_names, name_i,
                   rvars, unit, filename, mrun, svars, lvars, cvars, pvars>>

\* one iteration of "for node in ast.walk(tree)"
EWalk ==
    /\ epc = "walk"
    /\ etodo # <<>>
    /\ etodo' = Tail(etodo) \o Children(Head(etodo))
    /\ eout' = eout \o ErrorLines(filename, Head(etodo))
    /\ UNCHANGED <<epc, defined_names, used_names, name_i,
                   rvars, unit, filename, mrun, svars, lvars, cvars, pvars>>

\* the walk is exhausted: the script ends
EExit ==
    /\ epc = "walk"
    /\ etodo = <<>>
    /\ epc' = "done"
    /\ UNCHANGED <<etodo, eout, defined_names, used_names, name_i,
                   rvars, unit, filename, mrun, svars, lvars, cvars, pvars>>

ErrorNext ==
    \/ EParseOk \/ EParseSyntaxError \/ EParseUncaught
    \/ ECollect \/ ECheckName \/ EStartWalk \/ EWalk \/ EExit

\* both mappers are started on the same unit; each is its own process
MappersInit ==
    /\ unit \in Units
    /\ filename \in Filenames
    /\ spc = "parse"
    /\ stodo = <<>>
    /\ sout = <<>>
    /\ epc = "parse"
    /\ etodo = <<>>
    /\ eout = <<>>
    /\ defined_names = {}
    /\ used_names = <<>>
    /\ name_i = 1
    /\ mrun = 1
    /\ ReducerIdle
    /\ LintIdle
    /\ CategorizerIdle
    /\ PocIdle

\* bound: how many units the mappers are started on, one after the other
MaxUnits == 2

\* faulty variant: the names defined by the previous unit are kept
KeptNames(old) == old

\* defined_names = set(), executed by every process at module level
FreshNames(old) == {}

\* both processes have ended; the mappers are started on the next unit, each
\* in a new process that executes its module-level statements from the top
MNextUnit ==
    /\ spc \in {"done", "crashed"}
    /\ epc \in {"done", "crashed"}
    /\ mrun < MaxUnits
    /\ unit' \in Units
    /\ filename' \in Filenames
    /\ spc' = "parse"
    /\ stodo' = <<>>
    /\ sout' = <<>>
    /\ epc' = "parse"
    /\ etodo' = <<>>
    /\ eout' = <<>>
    /\ defined_names' = FreshNames(defined_names)
    /\ used_names' = <<>>
    /\ name_i' = 1
    /\ mrun' = mrun + 1
    /\ UNCHANGED <<rvars, lvars, cvars, pvars>>

MappersNext == StructNext \/ ErrorNext \/ MNextUnit

SpecMappers == MappersInit /\ [][MappersNext]_vars

----------------------------------------------------------------------------
(* Reference notions for the extractors' contracts.                         *)

\* the tag field of a printed line
TagOf(line) == Split(line, TAB)[2]

\* how many lines of out carry the tag
CountTag(out, tag) == Cardinality({i \in 1..Len(out) : TagOf(out[i]) = tag})

RECURSIVE FunctionDefsOf(_)
RECURSIVE FunctionDefsIn(_)
\* every function definition of a tree, nested ones included
FunctionDefsOf(node) ==
    (IF node.kind = "FunctionDef" THEN <<node>> ELSE <<>>)
        \o FunctionDefsIn(Children(node))
FunctionDefsIn(nodes) ==
    IF nodes = <<>> THEN <<>>
    ELSE FunctionDefsOf(Head(nodes)) \o FunctionDefsIn(Tail(nodes))

\* the positions of a body that follow its first top-level return
AfterFirstReturn(body) ==
    {j \in 1..Len(body) : \E i \in 1..(j - 1) : body[i].kind = "Return"}

\* a statement other than a return follows the first top-level return
HasDeadStatement(body) ==
    \E j \in AfterFirstReturn(body) : body[j].kind # "Return"

RECURSIVE StatementsAfterReturn(_)
\* over a list of function definitions: the statements after a first return
StatementsAfterReturn(defs) ==
    IF defs = <<>> THEN 0
    ELSE Cardinality(AfterFirstReturn(Head(defs).body))
             + StatementsAfterReturn(Tail(defs))

RECURSIVE DefsWithDeadStatement(_)
\* over a list of function definitions: how many have a dead statement
DefsWithDeadStatement(defs) ==
    IF defs = <<>> THEN 0
    ELSE (IF HasDeadStatement(Head(defs).body) THEN 1 ELSE 0)
             + DefsWithDeadStatement(Tail(defs))

SyntaxErrorOnly == <<Obs(filename, <<"SYNTAX_ERROR">>)>>

\* C4 (as claimed): for a unit whose parse fails for any reason, each
\* extractor ends normally having printed the one record SYNTAX_ERROR and
\* nothing else.
C4_ParseFailurePolicy ==
    (unit.parse \notin {"ok", "none"}) =>
        /\ spc # "parse" => (spc = "done" /\ sout = SyntaxErrorOnly)
        /\ epc # "parse" => (epc = "done" /\ eout = SyntaxErrorOnly)

\* C5 (as claimed): every line the language-structures extractor prints is
\* exactly three tab-separated fields with an integer count, so the reducer
\* decodes it.
C5_WireFormat == \A i \in 1..Len(sout) : Decodable(sout[i])

\* C9 (as claimed): the error extractor prints one ERROR_UNREACHABLE_CODE per
\* top-level statement that follows the first top-level return of a function.
C9_UnreachablePerStatement ==
    (epc = "done" /\ unit.parse = "ok") =>
        CountTag(eout, <<"ERROR_UNREACHABLE_CODE">>)
            = StatementsAfterReturn(FunctionDefsOf(unit.tree))

\* C9 (amended): the error extractor prints exactly one ERROR_UNREACHABLE_CODE
\* for each function definition whose top-level body has, after its first
\* top-level return, at least one statement that is not itself a return, and
\* none for any other function.
C9_UnreachableOncePerFunction ==
    (epc = "done" /\ unit.parse = "ok") =>
        CountTag(eout, <<"ERROR_UNREACHABLE_CODE">>)
            = DefsWithDeadStatement(FunctionDefsOf(unit.tree))

C9_Witness ==
    /\ epc = "done"
    /\ unit = Parsed(Module(<<FunctionDef("f", <<Return1, PassStmt, Print2>>)>>))
    /\ CountTag(eout, <<"ERROR_UNREACHABLE_CODE">>) = 1

\* def f():
\*     return 1
\*     print(2)
ScenarioC == Parsed(Module(<<FunctionDef("f", <<Return1, Print2>>)>>))

\* C10 (as claimed): for Scenario C one Observation sequence holds the
\* function-definition tag, exactly one unreachable-code tag and exactly one
\* debug-print-used tag.
C10_ScenarioCOneSequence ==
    (unit = ScenarioC /\ spc = "done" /\ epc = "done") =>
        \E out \in {sout, eout} :
            /\ CountTag(out, <<"FUNCTION_DEF">>) >= 1
            /\ CountTag(out, <<"ERROR_UNREACHABLE_CODE">>) = 1
            /\ CountTag(out, <<"WARNING_PRINT_USED">>) = 1

\* C10 (amended): for Scenario C the language-structures extractor prints
\* exactly the function-definition tag, and the error extractor prints
\* exactly one unreachable-code tag followed by one debug-print-used tag;
\* the three tags are spread over the two extractors' sequences.
C10_ScenarioCTwoSequences ==
    (unit = ScenarioC /\ spc = "done" /\ epc = "done") =>
        /\ sout = <<Obs(filename, <<"FUNCTION_DEF">>)>>
        /\ eout = << Obs(filename, <<"ERROR_UNREACHABLE_CODE">>),
                     Obs(filename, <<"WARNING_PRINT_USED">>) >>

C10_Witness ==
    /\ unit = ScenarioC
    /\ spc = "done"
    /\ epc = "done"
    /\ Len(sout) = 1
    /\ Len(eout) = 2

----------------------------------------------------------------------------
(* problemset/lintrules/mapper.py                                           *)

\* bound: the number of adapter invocations explored
MaxRuns == 2
\* bound: the longest flake8 output explored
MaxDiag == 2

RECURSIVE SplitMaxAcc(_, _, _, _, _)
SplitMaxAcc(s, sep, n, cur, acc) ==
    IF s = <<>> THEN Append(acc, cur)
    ELSE IF Head(s) = sep /\ n > 0
         THEN SplitMaxAcc(Tail(s), sep, n - 1, <<>>, Append(acc, cur))
         ELSE SplitMaxAcc(Tail(s), sep, n, Append(cur, Head(s)), acc)

\* str.split(sep, maxsplit): at most maxsplit splits, from the left
SplitMax(s, sep, maxsplit) == SplitMaxAcc(s, sep, maxsplit, <<>>, <<>>)

RECURSIVE SplitWsAcc(_, _, _)
SplitWsAcc(s, cur, acc) ==
    LET flushed == IF cur # <<>> THEN Append(acc, cur) ELSE acc
    IN  IF s = <<>> THEN flushed
        ELSE IF Head(s) \in Whitespace THEN SplitWsAcc(Tail(s), <<>>, flushed)
        ELSE SplitWsAcc(Tail(s), Append(cur, Head(s)), acc)

\* str.split(): the maximal runs of non-whitespace
SplitWs(s) == SplitWsAcc(s, <<>>, <<>>)

\* the lines flake8 may write to its stdout
DiagLines ==
    { <<"t.py", ":", "1", ":", "1", ":", SP, "E302", SP, "expected">>,
      <<"t.py", ":", "2", ":", "80", ":", SP, "E501", SP, "long", ":", SP, "x">>,
      <<"t.py", ":", "3", ":", "1", ":", "F401">>,
      <<"t.py", ":", "4", ":", "1", ":">>,
      <<"t.py", ":", "5", ":", "1", ":", SP>>,
      <<"warning", ":", SP, "x">>,
      <<"garbage">>,
      <<>>,
      <<SP, TAB>> }

DiagStreams == UNION { [1..n -> DiagLines] : n \in 0..MaxDiag }

\* repr(e) of the exception subprocess.run raises when the binary is missing
ReprOfError ==
    <<"FileNotFoundError(2,", SP, "'No", SP, "such", SP, "file", SP, "or", SP,
      "directory')">>

\* faulty variant: the failure record carries the count 1
FailedLineCounted(fn) == Obs(fn, <<"LINT_ERROR_FLAKE8_FAILED">>)

\* print(f"{filename}\tLINT_ERROR_FLAKE8_FAILED\t{repr(e)}")
FailedLine(fn) == Line3(fn, <<"LINT_ERROR_FLAKE8_FAILED">>, ReprOfError)

\* faulty variant: an unparseable diagnostic line is skipped
UnknownSkipped(fn) == <<>>

\* except Exception: print(f"{filename}\tLINT_UNKNOWN\t1")
UnknownLine(fn) == <<Obs(fn, <<"LINT_UNKNOWN">>)>>

\* the body of "for line in result.stdout.splitlines()"
LintLine(fn, line) ==
    IF Strip(line) = <<>> THEN <<>>
    ELSE LET parts == SplitMax(line, ":", 3)
         IN  IF Len(parts) # 4 THEN UnknownLine(fn)
             ELSE LET words == SplitWs(Strip(parts[4]))
                  IN  IF words = <<>> THEN UnknownLine(fn)
                      ELSE <<Obs(fn, <<"LINT_">> \o words[1])>>

\* with tempfile.NamedTemporaryFile(..., delete=False) as tmp: tmp.write(code)
\* the file is closed and kept
LCreateTemp ==
    /\ lpc = "start"
    /\ tmpfiles' = tmpfiles \cup {run}
    /\ lpc' = "run"
    /\ UNCHANGED <<run, result, line_i, lout, rvars, mvars, cvars, pvars>>

\* subprocess.run raises (the binary is missing or cannot be executed):
\* print LINT_ERROR_FLAKE8_FAILED; sys.exit(0)
LRunRaises ==
    /\ lpc = "run"
    /\ lout' = Append(lout, FailedLine(filename))
    /\ lpc' = "done"
    /\ UNCHANGED <<tmpfiles, run, result, line_i, rvars, mvars, cvars, pvars>>

\* subprocess.run returns: flake8 ran to completion (exit status 0 or 1), or
\* it crashed or exited with an unexpected status after writing some output;
\* the return code is not looked at
LRunReturns ==
    /\ lpc = "run"
    /\ \E st \in {"completed", "crashed"}, out \in DiagStreams :
           result' = [status |-> st, stdout |-> out]
    /\ line_i' = 1
    /\ lpc' = "lines"
    /\ UNCHANGED <<tmpfiles, run, lout, rvars, mvars, cvars, pvars>>

\* one iteration of "for line in result.stdout.splitlines()"
LLine ==
    /\ lpc = "lines"
    /\ line_i <= Len(result.stdout)
    /\ lout' = lout \o LintLine(filename, result.stdout[line_i])
    /\ line_i' = line_i + 1
    /\ UNCHANGED <<lpc, tmpfiles, run, result, rvars, mvars, cvars, pvars>>

\* the loop is exhausted: the script ends
LExit ==
    /\ lpc = "lines"
    /\ line_i > Len(result.stdout)
    /\ lpc' = "done"
    /\ UNCHANGED <<tmpfiles, run, result, line_i, lout, rvars, mvars, cvars, pvars>>

\* the job runs the adapter again, on the next unit, on the same file system
LNextUnit ==
    /\ lpc = "done"
    /\ run < MaxRuns
    /\ run' = run + 1
    /\ lpc' = "start"
    /\ result' = NoResult
    /\ line_i' = 1
    /\ lout' = <<>>
    /\ UNCHANGED <<tmpfiles, rvars, mvars, cvars, pvars>>

LintInit ==
    /\ lpc = "start"
    /\ tmpfiles = {}
    /\ run = 1
    /\ result = NoResult
    /\ line_i = 1
    /\ lout = <<>>
    /\ filename \in Filenames
    /\ ReducerIdle
    /\ MappersIdle
    /\ CategorizerIdle
    /\ PocIdle

LintNext == LCreateTemp \/ LRunRaises \/ LRunReturns \/ LLine \/ LExit \/ LNextUnit

SpecLint == LintInit /\ [][LintNext]_vars

----------------------------------------------------------------------------
(* Reference notions for the adapter's contract.                            *)

IsBlank(line) == \A i \in 1..Len(line) : line[i] \in Whitespace

Colons(line) == {i \in 1..Len(line) : line[i] = ":"}

\* the text after the third colon of a line with at least three colons
Message(line) ==
    LET third == CHOOSE p \in Colons(line) :
                     Cardinality({q \in Colons(line) : q <= p}) = 3
    IN  SubSeq(line, third + 1, Len(line))

HasWord(msg) == \E i \in 1..Len(msg) : msg[i] \notin Whitespace

\* the first whitespace-delimited token of a message (empty if it has none)
FirstWord(msg) ==
    IF ~HasWord(msg) THEN <<>>
    ELSE LET first == CHOOSE i \in 1..Len(msg) :
                          /\ msg[i] \notin Whitespace
                          /\ \A k \in 1..(i - 1) : msg[k] \in Whitespace
             last == CHOOSE e \in first..Len(msg) :
                         /\ \A k \in first..e : msg[k] \notin Whitespace
                         /\ (e = Len(msg) \/ msg[e + 1] \in Whitespace)
         IN  SubSeq(msg, first, last)

\* the record the claim gives a line whose message is non-empty
ClaimedDiag(fn, line) ==
    IF IsBlank(line) THEN <<>>
    ELSE IF Cardinality(Colons(line)) >= 3 /\ Message(line) # <<>>
         THEN <<Obs(fn, <<"LINT_">> \o FirstWord(Message(line)))>>
         ELSE <<Obs(fn, <<"LINT_UNKNOWN">>)>>

\* the same with "non-empty" read as "holding a non-whitespace character"
AmendedDiag(fn, line) ==
    IF IsBlank(line) THEN <<>>
    ELSE IF Cardinality(Colons(line)) >= 3 /\ HasWord(Message(line))
         THEN <<Obs(fn, <<"LINT_">> \o FirstWord(Message(line)))>>
         ELSE <<Obs(fn, <<"LINT_UNKNOWN">>)>>

RECURSIVE ClaimedOutput(_, _)
ClaimedOutput(fn, lines) ==
    IF lines = <<>> THEN <<>>
    ELSE ClaimedDiag(fn, Head(lines)) \o ClaimedOutput(fn, Tail(lines))

RECURSIVE AmendedOutput(_, _)
AmendedOutput(fn, lines) ==
    IF lines = <<>> THEN <<>>
    ELSE AmendedDiag(fn, Head(lines)) \o AmendedOutput(fn, Tail(lines))

\* C6 (as claimed): when an invocation of the adapter has ended, on any exit
\* path, no temporary file made by the adapter exists.
C6_TempFileReleased == lpc = "done" => tmpfiles = {}

\* C7 (as claimed): when the flake8 invocation fails totally (subprocess.run
\* raises, or flake8 crashes or exits with an unexpected status), the adapter
\* ends normally having printed exactly the one LINT_ERROR_FLAKE8_FAILED
\* record and no LINT_<code> record.
C7_TotalFailureReported ==
    (lpc = "done" /\ result.status # "completed") =>
        lout = <<FailedLine(filename)>>

\* C8 (as claimed): after a successful flake8 run the output is, line by line
\* of flake8's stdout: nothing for a blank line, LINT_<first token of the
\* message> for a line with three colons and a non-empty message, LINT_UNKNOWN
\* for any other line.
C8_DiagnosticTranslation ==
    (lpc = "done" /\ result.status = "completed") =>
        lout = ClaimedOutput(filename, result.stdout)

\* C8 (amended): the same, where the LINT_<first token> case is a line with
\* three colons whose message holds at least one non-whitespace character; a
\* message of whitespace only yields LINT_UNKNOWN.
C8_DiagnosticTranslationAmended ==
    (lpc = "done" /\ result.status = "completed") =>
        lout = AmendedOutput(filename, result.stdout)

C8_Witness ==
    /\ lpc = "done"
    /\ result.status = "completed"
    /\ result.stdout = << <<"garbage">>,
                          <<"t.py", ":", "1", ":", "1", ":", SP, "E302", SP, "expected">> >>
    /\ lout = << Obs(filename, <<"LINT_UNKNOWN">>),
                 Obs(filename, <<"LINT_", "E302">>) >>

----------------------------------------------------------------------------
(* Reference notions for the name and operator claims.                      *)

RECURSIVE NodesOf(_)
RECURSIVE NodesIn(_)
\* every node of a tree
NodesOf(node) == <<node>> \o NodesIn(Children(node))
NodesIn(nodes) ==
    IF nodes = <<>> THEN <<>> ELSE NodesOf(Head(nodes)) \o NodesIn(Tail(nodes))

\* the names a tree mentions
NamesIn(tree) ==
    LET nodes == NodesOf(tree)
    IN  {nodes[i].id : i \in {j \in 1..Len(nodes) : nodes[j].kind = "Name"}}

\* how many times a tree reads the name
Reads(tree, n) ==
    LET nodes == NodesOf(tree)
    IN  Cardinality({i \in 1..Len(nodes) :
                        /\ nodes[i].kind = "Name"
                        /\ nodes[i].id = n
                        /\ nodes[i].pre = <<Load>>})

\* the name is the target of a simple assignment somewhere in the tree
SimplyAssigned(tree, n) ==
    LET nodes == NodesOf(tree)
    IN  \E i \in 1..Len(nodes) :
            /\ nodes[i].kind = "Assign"
            /\ \E k \in 1..(Len(nodes[i].pre) - 1) :
                   /\ nodes[i].pre[k].kind = "Name"
                   /\ nodes[i].pre[k].id = n

\* the name is neither simply assigned in the tree nor a built-in
Undefined(tree, n) == ~SimplyAssigned(tree, n) /\ n \notin Builtins

UndefinedTag(n) == <<"ERROR_NAME_UNDEFINED_", UpperName(n)>>

\* C11 (as claimed): a name that is undefined, not a built-in and read m >= 1
\* times gets exactly one ERROR_NAME_UNDEFINED_<name> record, whatever m is.
C11_OnePerName ==
    (epc = "done" /\ unit.parse = "ok") =>
        \A n \in NamesIn(unit.tree) :
            (Undefined(unit.tree, n) /\ Reads(unit.tree, n) >= 1)
                => CountTag(eout, UndefinedTag(n)) = 1

\* C11 (amended): a name that is undefined, not a built-in and read m >= 1
\* times gets exactly m ERROR_NAME_UNDEFINED_<name> records, one per read;
\* a name that is simply assigned or a built-in gets none.
C11_OnePerRead ==
    (epc = "done" /\ unit.parse = "ok") =>
        \A n \in NamesIn(unit.tree) :
            CountTag(eout, UndefinedTag(n))
                = IF Undefined(unit.tree, n) THEN Reads(unit.tree, n) ELSE 0

C11_Witness ==
    /\ epc = "done"
    /\ unit = UnitUndefined
    /\ CountTag(eout, UndefinedTag("u")) = 3
    /\ CountTag(eout, UndefinedTag("v")) = 1
    /\ CountTag(eout, UndefinedTag("y")) = 0

\* the comparison operator kinds
CompareOps == {"Lt", "Gt", "Eq", "NotEq", "LtE", "GtE", "In", "Is"}

\* how many operator nodes of the kind a tree holds
OpCount(tree, op) ==
    LET nodes == NodesOf(tree)
    IN  Cardinality({i \in 1..Len(nodes) : nodes[i].kind = op})

\* C12: for every comparison expression with k operators the language-
\* structures extractor prints k COMPARE_OP_<kind> records, one per operator
\* of the chain; "if a < b < c: pass" gives exactly one CONTROL_IF and exactly
\* two COMPARE_OP_LT.
C12_ComparisonCounting ==
    (spc = "done" /\ unit.parse = "ok") =>
        /\ \A op \in CompareOps :
               CountTag(sout, <<"COMPARE_OP_", UpperOp(op)>>) = OpCount(unit.tree, op)
        /\ unit = UnitIfChain =>
               /\ CountTag(sout, <<"CONTROL_IF">>) = 1
               /\ CountTag(sout, <<"COMPARE_OP_", "LT">>) = 2
               /\ Len(sout) = 3

C12_Witness ==
    /\ spc = "done"
    /\ unit = UnitCompare
    /\ CountTag(sout, <<"COMPARE_OP_", "LT">>) = 2
    /\ CountTag(sout, <<"COMPARE_OP_", "LTE">>) = 1
    /\ CountTag(sout, <<"COMPARE_OP_", "NOTEQ">>) = 1

----------------------------------------------------------------------------
(* problemset/languagestructures/analysis/frequency_chart.py                *)

\* bound: the longest suffix appended to a table prefix to make an argument
MaxSuffix == 2

\* the characters of the pieces tags are printed from
Chars(t) ==
    CASE t = "SYNTAX_ERROR" -> <<"S", "Y", "N", "T", "A", "X", "_", "E", "R", "R", "O", "R">>
      [] t = "IMPORT" -> <<"I", "M", "P", "O", "R", "T">>
      [] t = "IMPORT_FROM" -> <<"I", "M", "P", "O", "R", "T", "_", "F", "R", "O", "M">>
      [] t = "OPERATOR_" -> <<"O", "P", "E", "R", "A", "T", "O", "R", "_">>
      [] t = "BOOLEAN_OP_" -> <<"B", "O", "O", "L", "E", "A", "N", "_", "O", "P", "_">>
      [] t = "UNARY_OP_" -> <<"U", "N", "A", "R", "Y", "_", "O", "P", "_">>
      [] t = "COMPARE_OP_" -> <<"C", "O", "M", "P", "A", "R", "E", "_", "O", "P", "_">>
      [] t = "ADD" -> <<"A", "D", "D">>
      [] t = "SUB" -> <<"S", "U", "B">>
      [] t = "DIV" -> <<"D", "I", "V">>
      [] t = "POW" -> <<"P", "O", "W">>
      [] t = "MOD" -> <<"M", "O", "D">>
      [] t = "MULT" -> <<"M", "U", "L", "T">>
      [] t = "AND" -> <<"A", "N", "D">>
      [] t = "OR" -> <<"O", "R">>
      [] t = "NOT" -> <<"N", "O", "T">>
      [] t = "USUB" -> <<"U", "S", "U", "B">>
      [] t = "UADD" -> <<"U", "A", "D", "D">>
      [] t = "LT" -> <<"L", "T">>
      [] t = "GT" -> <<"G", "T">>
      [] t = "EQ" -> <<"E", "Q">>
      [] t = "NOTEQ" -> <<"N", "O", "T", "E", "Q">>
      [] t = "LTE" -> <<"L", "T", "E">>
      [] t = "GTE" -> <<"G", "T", "E">>
      [] t = "IN" -> <<"I", "N">>
      [] t = "IS" -> <<"I", "S">>
      [] t = "CONTROL_IF" -> <<"C", "O", "N", "T", "R", "O", "L", "_", "I", "F">>
      [] t = "CONTROL_ELSE" -> <<"C", "O", "N", "T", "R", "O", "L", "_", "E", "L", "S", "E">>
      [] t = "CONTROL_FOR" -> <<"C", "O", "N", "T", "R", "O", "L", "_", "F", "O", "R">>
      [] t = "CONTROL_WHILE" -> <<"C", "O", "N", "T", "R", "O", "L", "_", "W", "H", "I", "L", "E">>
      [] t = "FUNCTION_DEF" -> <<"F", "U", "N", "C", "T", "I", "O", "N", "_", "D", "E", "F">>
      [] t = "DATA_LIST" -> <<"D", "A", "T", "A", "_", "L", "I", "S", "T">>
      [] t = "DATA_DICT" -> <<"D", "A", "T", "A", "_", "D", "I", "C", "T">>
      [] t = "DATA_SET" -> <<"D", "A", "T", "A", "_", "S", "E", "T">>
      [] t = "ERROR_NAME_UNDEFINED_" -> <<"E", "R", "R", "O", "R", "_", "N", "A", "M", "E", "_", "U", "N", "D", "E", "F", "I", "N", "E", "D", "_">>
      [] t = "A" -> <<"A">>
      [] t = "B" -> <<"B">>
      [] t = "C" -> <<"C">>
      [] t = "H" -> <<"H">>
      [] t = "I" -> <<"I">>
      [] t = "X" -> <<"X">>
      [] t = "Y" -> <<"Y">>
      [] t = "Z" -> <<"Z">>
      [] t = "U" -> <<"U">>
      [] t = "V" -> <<"V">>
      [] t = "W" -> <<"W">>
      [] t = "PRINT" -> <<"P", "R", "I", "N", "T">>
      [] t = "VALUEERROR" -> <<"V", "A", "L", "U", "E", "E", "R", "R", "O", "R">>
      [] t = "ERROR_BARE_EXCEPT" -> <<"E", "R", "R", "O", "R", "_", "B", "A", "R", "E", "_", "E", "X", "C", "E", "P", "T">>
      [] t = "ERROR_EMPTY_EXCEPT" -> <<"E", "R", "R", "O", "R", "_", "E", "M", "P", "T", "Y", "_", "E", "X", "C", "E", "P", "T">>
      [] t = "ERROR_DIV_BY_ZERO" -> <<"E", "R", "R", "O", "R", "_", "D", "I", "V", "_", "B", "Y", "_", "Z", "E", "R", "O">>
      [] t = "ERROR_USELESS_PASS" -> <<"E", "R", "R", "O", "R", "_", "U", "S", "E", "L", "E", "S", "S", "_", "P", "A", "S", "S">>
      [] t = "ERROR_UNREACHABLE_CODE" -> <<"E", "R", "R", "O", "R", "_", "U", "N", "R", "E", "A", "C", "H", "A", "B", "L", "E", "_", "C", "O", "D", "E">>
      [] t = "WARNING_PRINT_USED" -> <<"W", "A", "R", "N", "I", "N", "G", "_", "P", "R", "I", "N", "T", "_", "U", "S", "E", "D">>
      [] t = "LINT_" -> <<"L", "I", "N", "T", "_">>
      [] t = "LINT_UNKNOWN" -> <<"L", "I", "N", "T", "_", "U", "N", "K", "N", "O", "W", "N">>
      [] t = "LINT_ERROR_FLAKE8_FAILED" -> <<"L", "I", "N", "T", "_", "E", "R", "R", "O", "R", "_", "F", "L", "A", "K", "E", "8", "_", "F", "A", "I", "L", "E", "D">>
      [] t = "E302" -> <<"E", "3", "0", "2">>
      [] t = "E501" -> <<"E", "5", "0", "1">>
      [] t = "F401" -> <<"F", "4", "0", "1">>

RECURSIVE Flatten(_)
\* the characters of a tag given as a sequence of pieces
Flatten(tag) == IF tag = <<>> THEN <<>> ELSE Chars(Head(tag)) \o Flatten(Tail(tag))

\* faulty variant: IMPORT_FROM is given a label of its own
CATEGORY_LABELS_Split ==
    << [prefix |-> <<"S", "Y", "N", "T", "A", "X", "_", "E", "R", "R", "O", "R">>,
        label |-> "Syntax Error"],
       [prefix |-> <<"I", "M", "P", "O", "R", "T">>,
        label |-> "Imports"],
       [prefix |-> <<"I", "M", "P", "O", "R", "T", "_", "F", "R", "O", "M">>,
        label |-> "From Imports"],
       [prefix |-> <<"B", "O", "O", "L", "E", "A", "N", "_", "O", "P">>,
        label |-> "Boolean"],
       [prefix |-> <<"O", "P", "E", "R", "A", "T", "O", "R">>,
        label |-> "Binary Operation"],
       [prefix |-> <<"U", "N", "A", "R", "Y", "_", "O", "P">>,
        label |-> "Unary Operation"],
       [prefix |-> <<"C", "O", "M", "P", "A", "R", "E", "_", "O", "P">>,
        label |-> "Comparison"],
       [prefix |-> <<"C", "O", "N", "T", "R", "O", "L", "_", "I", "F">>,
        label |-> "If Statement"],
       [prefix |-> <<"C", "O", "N", "T", "R", "O", "L", "_", "E", "L", "S", "E">>,
        label |-> "Else Statement"],
       [prefix |-> <<"C", "O", "N", "T", "R", "O", "L", "_", "W", "H", "I", "L", "E">>,
        label |-> "While Loop"],
       [prefix |-> <<"C", "O", "N", "T", "R", "O", "L", "_", "F", "O", "R">>,
        label |-> "For Loop"],
       [prefix |-> <<"F", "U", "N", "C", "T", "I", "O", "N", "_", "D", "E", "F">>,
        label |-> "Create Function"],
       [prefix |-> <<"D", "A", "T", "A", "_", "L", "I", "S", "T">>,
        label |-> "List"],
       [prefix |-> <<"D", "A", "T", "A", "_", "D", "I", "C", "T">>,
        label |-> "Dict"],
       [prefix |-> <<"D", "A", "T", "A", "_", "S", "E", "T">>,
        label |-> "Set"] >>

\* the items of CATEGORY_LABELS, in insertion order
CATEGORY_LABELS ==
    << [prefix |-> <<"S", "Y", "N", "T", "A", "X", "_", "E", "R", "R", "O", "R">>,
        label |-> "Syntax Error"],
       [prefix |-> <<"I", "M", "P", "O", "R", "T">>,
        label |-> "Imports"],
       [prefix |-> <<"I", "M", "P", "O", "R", "T", "_", "F", "R", "O", "M">>,
        label |-> "Imports"],
       [prefix |-> <<"B", "O", "O", "L", "E", "A", "N", "_", "O", "P">>,
        label |-> "Boolean"],
       [prefix |-> <<"O", "P", "E", "R", "A", "T", "O", "R">>,
        label |-> "Binary Operation"],
       [prefix |-> <<"U", "N", "A", "R", "Y", "_", "O", "P">>,
        label |-> "Unary Operation"],
       [prefix |-> <<"C", "O", "M", "P", "A", "R", "E", "_", "O", "P">>,
        label |-> "Comparison"],
       [prefix |-> <<"C", "O", "N", "T", "R", "O", "L", "_", "I", "F">>,
        label |-> "If Statement"],
       [prefix |-> <<"C", "O", "N", "T", "R", "O", "L", "_", "E", "L", "S", "E">>,
        label |-> "Else Statement"],
       [prefix |-> <<"C", "O", "N", "T", "R", "O", "L", "_", "W", "H", "I", "L", "E">>,
        label |-> "While Loop"],
       [prefix |-> <<"C", "O", "N", "T", "R", "O", "L", "_", "F", "O", "R">>,
        label |-> "For Loop"],
       [prefix |-> <<"F", "U", "N", "C", "T", "I", "O", "N", "_", "D", "E", "F">>,
        label |-> "Create Function"],
       [prefix |-> <<"D", "A", "T", "A", "_", "L", "I", "S", "T">>,
        label |-> "List"],
       [prefix |-> <<"D", "A", "T", "A", "_", "D", "I", "C", "T">>,
        label |-> "Dict"],
       [prefix |-> <<"D", "A", "T", "A", "_", "S", "E", "T">>,
        label |-> "Set"] >>

\* faulty variant: the construct must equal the prefix
EqualsPrefix(s, prefix) == s = prefix

\* construct.startswith(prefix)
StartsWith(s, prefix) ==
    Len(prefix) <= Len(s) /\ SubSeq(s, 1, Len(prefix)) = prefix

\* the second field of every line the language-structures mapper prints for
\* the units
StructTags ==
    UNION { UNION { {Flatten(TagOf(StructLines(<<"unknown">>, NodesOf(u.tree)[i])[k])) :
                        k \in 1..Len(StructLines(<<"unknown">>, NodesOf(u.tree)[i]))} :
                    i \in 1..Len(NodesOf(u.tree)) } :
            u \in {v \in Units : v.parse = "ok"} }
        \cup {Flatten(<<"SYNTAX_ERROR">>)}

\* the second field of every line the error mapper prints for the units,
\* SYNTAX_ERROR apart
ErrorTags ==
    UNION { UNION { {Flatten(TagOf(ErrorLines(<<"unknown">>, NodesOf(u.tree)[i])[k])) :
                        k \in 1..Len(ErrorLines(<<"unknown">>, NodesOf(u.tree)[i]))} :
                    i \in 1..Len(NodesOf(u.tree)) } :
            u \in {v \in Units : v.parse = "ok"} }
        \cup UNION { {Flatten(UndefinedTag(UsedNamesOf(u.tree)[i])) :
                         i \in {j \in 1..Len(UsedNamesOf(u.tree)) :
                                   UndefinedLines(<<"unknown">>, UsedNamesOf(u.tree)[j],
                                                  DefinedNamesOf(u.tree)) # <<>>}} :
                     u \in {v \in Units : v.parse = "ok"} }

\* the second field of every line the lint adapter prints
LintTags ==
    UNION { {Flatten(TagOf(LintLine(<<"unknown">>, l)[k])) :
                k \in 1..Len(LintLine(<<"unknown">>, l))} : l \in DiagLines }
        \cup {Flatten(TagOf(FailedLine(<<"unknown">>)))}

\* arguments built around the table: a leading part of a table prefix (all of
\* it, or cut short) followed by a short suffix
SuffixChars == {"_", "X"}
Suffixes == UNION { [1..n -> SuffixChars] : n \in 0..MaxSuffix }
AroundTable ==
    UNION { { SubSeq(CATEGORY_LABELS[i].prefix, 1, k) \o x :
                k \in 0..Len(CATEGORY_LABELS[i].prefix), x \in Suffixes } :
            i \in 1..Len(CATEGORY_LABELS) }

Constructs == StructTags \cup ErrorTags \cup LintTags \cup AroundTable

CategorizerInit ==
    /\ construct \in Constructs
    /\ label_i = 1
    /\ category = None
    /\ cpc = "call"
    /\ filename = <<>>
    /\ ReducerIdle
    /\ MappersIdle
    /\ LintIdle
    /\ PocIdle

\* if construct.startswith(prefix): return label
CatMatch ==
    /\ cpc = "call"
    /\ label_i <= Len(CATEGORY_LABELS)
    /\ StartsWith(construct, CATEGORY_LABELS[label_i].prefix)
    /\ category' = CATEGORY_LABELS[label_i].label
    /\ cpc' = "returned"
    /\ UNCHANGED <<construct, label_i, rvars, mvars, lvars, pvars>>

\* the prefix does not match: the loop goes to the next item
CatNext ==
    /\ cpc = "call"
    /\ label_i <= Len(CATEGORY_LABELS)
    /\ ~StartsWith(construct, CATEGORY_LABELS[label_i].prefix)
    /\ label_i' = label_i + 1
    /\ UNCHANGED <<construct, category, cpc, rvars, mvars, lvars, pvars>>

\* the loop is exhausted: return 'Other'
CatOther ==
    /\ cpc = "call"
    /\ label_i > Len(CATEGORY_LABELS)
    /\ category' = "Other"
    /\ cpc' = "returned"
    /\ UNCHANGED <<construct, label_i, rvars, mvars, lvars, pvars>>

CategorizerNext == CatMatch \/ CatNext \/ CatOther

SpecCategorizer == CategorizerInit /\ [][CategorizerNext]_vars

----------------------------------------------------------------------------
(* Reference notions for the categorizer claims                             *)

\* the categories the table can yield, and the reserved one
Labels == {CATEGORY_LABELS[i].label : i \in 1..Len(CATEGORY_LABELS)} \cup {"Other"}

\* the table items whose prefix the string starts with
Matching(s) == {i \in 1..Len(CATEGORY_LABELS) : StartsWith(s, CATEGORY_LABELS[i].prefix)}

\* the category of the longest table prefix the string starts with
LongestCategory(s) ==
    IF Matching(s) = {} THEN "Other"
    ELSE LET i == CHOOSE j \in Matching(s) :
                     \A k \in Matching(s) :
                         Len(CATEGORY_LABELS[k].prefix) <= Len(CATEGORY_LABELS[j].prefix)
         IN  CATEGORY_LABELS[i].label

\* C13 (as claimed): categorize_construct returns one category for every
\* string; every tag an extractor or the adapter can emit maps to a category
\* other than 'Other'; every string matching no table prefix maps to 'Other'.
C13_Totality ==
    cpc = "returned" =>
        /\ category \in Labels
        /\ construct \in StructTags \cup ErrorTags \cup LintTags => category # "Other"
        /\ Matching(construct) = {} => category = "Other"

\* C13 (amended): categorize_construct returns one category for every string;
\* every tag the language-structures mapper can emit maps to a category other
\* than 'Other'; the ERROR_*, WARNING_* and LINT_* tags of the error mapper
\* and the lint adapter match no table prefix and map to 'Other', as does
\* every other string matching no table prefix.
C13_TotalityConstructTags ==
    /\ label_i \in 1..(Len(CATEGORY_LABELS) + 1)
    /\ cpc = "returned" =>
        /\ category \in Labels
        /\ construct \in StructTags => category # "Other"
        /\ construct \in ErrorTags \cup LintTags => category = "Other"
        /\ Matching(construct) = {} => category = "Other"

C13_Witness ==
    /\ cpc = "returned"
    /\ construct = Flatten(<<"ERROR_UNREACHABLE_CODE">>)
    /\ construct \in ErrorTags
    /\ category = "Other"

\* C14: for every tag string, the category of the first matching prefix in
\* table order equals the category of the longest matching table prefix; the
\* overlapping prefixes IMPORT and IMPORT_FROM never make the two disagree.
C14_FirstIsLongest ==
    cpc = "returned" => category = LongestCategory(construct)

C14_Witness ==
    /\ cpc = "returned"
    /\ StartsWith(construct, Flatten(<<"IMPORT_FROM">>))
    /\ Cardinality(Matching(construct)) = 2
    /\ category = "Imports"

----------------------------------------------------------------------------
(* Reference notions for the count claims                                   *)

Elems(seq) == {seq[i] : i \in 1..Len(seq)}

\* every line the language-structures mapper prints for the units
StructRecords ==
    UNION { UNION { UNION { Elems(StructLines(fn, NodesOf(u.tree)[i])) :
                            i \in 1..Len(NodesOf(u.tree)) } :
                    u \in {v \in Units : v.parse = "ok"} }
                \cup {Obs(fn, <<"SYNTAX_ERROR">>)} :
            fn \in Filenames }

\* every line the error mapper prints for the units
ErrorRecords ==
    UNION { UNION { UNION { Elems(ErrorLines(fn, NodesOf(u.tree)[i])) :
                            i \in 1..Len(NodesOf(u.tree)) }
                      \cup UNION { Elems(UndefinedLines(fn, UsedNamesOf(u.tree)[i],
                                                        DefinedNamesOf(u.tree))) :
                                   i \in 1..Len(UsedNamesOf(u.tree)) } :
                    u \in {v \in Units : v.parse = "ok"} }
                \cup {Obs(fn, <<"SYNTAX_ERROR">>)} :
            fn \in Filenames }

\* every line the lint adapter prints for a diagnostic
LintRecords ==
    UNION { UNION { Elems(LintLine(fn, l)) : l \in DiagLines } : fn \in Filenames }

\* the last tab-separated field of a line
LastField(line) == Split(line, TAB)[Len(Split(line, TAB))]

\* every decodable input line carries a count of at least zero
NonNegativeInput ==
    \A i \in 1..Len(stdin) : Decodable(stdin[i]) => CountOf(stdin[i]) >= 0

\* C16 (as claimed): every count the extractors emit is a positive integer;
\* for every input the reducer accepts each emitted record has a non-negative
\* total and the running total of the current key never decreases while that
\* key is being accumulated.
C16_CountSigns ==
    [][ /\ \A l \in StructRecords \cup ErrorRecords \cup LintRecords
                        \cup {FailedLine(fn) : fn \in Filenames} :
               Decodable(l) /\ CountOf(l) > 0
        /\ \A i \in 1..Len(stdout') : CountOf(stdout'[i]) >= 0
        /\ (current_key # None /\ current_key' = current_key) =>
               current_count' >= current_count
      ]_vars

\* C16 (amended): every record the extractors and the adapter print for a
\* construct or diagnostic ends with the count 1 (the adapter's
\* LINT_ERROR_FLAKE8_FAILED record carries the error text, not an integer, in
\* its third field); a line of the current key adds its count, negative
\* counts included, to the running total; for every input whose decodable
\* lines carry non-negative counts each emitted record has a non-negative
\* total and the running total of the current key never decreases.
C16_CountSignsNonNegativeInput ==
    [][ /\ \A l \in StructRecords \cup ErrorRecords \cup LintRecords :
               LastField(l) = <<"1">>
        /\ \A fn \in Filenames : ~IsInt(Split(FailedLine(fn), TAB)[3])
        /\ (rpc = "loop" /\ pos <= Len(stdin) /\ Decodable(stdin[pos])
                /\ KeyOf(stdin[pos]) = current_key) =>
               current_count' = current_count + CountOf(stdin[pos])
        /\ NonNegativeInput =>
               /\ \A i \in 1..Len(stdout') : CountOf(stdout'[i]) >= 0
               /\ (current_key # None /\ current_key' = current_key) =>
                      current_count' >= current_count
      ]_vars

C16_Witness ==
    /\ rpc = "done"
    /\ stdin = << Line3(<<"a">>, <<"X">>, <<"2">>),
                  Line3(<<"a">>, <<"X">>, <<"-", "1">>) >>
    /\ stdout = << Line3(<<"a">>, <<"X">>, <<"1">>) >>

----------------------------------------------------------------------------
(* Reference notions for the determinism claim: what one process, started   *)
(* on a unit with nothing carried over, prints.                             *)

RECURSIVE StructWalk(_, _)
\* the lines of a walk of the language-structures mapper from a queue
StructWalk(fn, queue) ==
    IF queue = <<>> THEN <<>>
    ELSE StructLines(fn, Head(queue))
             \o StructWalk(fn, Tail(queue) \o Children(Head(queue)))

RECURSIVE ErrorWalk(_, _)
\* the lines of a walk of the error mapper from a queue
ErrorWalk(fn, queue) ==
    IF queue = <<>> THEN <<>>
    ELSE ErrorLines(fn, Head(queue))
             \o ErrorWalk(fn, Tail(queue) \o Children(Head(queue)))

RECURSIVE NameChecks(_, _, _)
\* the lines of the name loop over names, given the unit's own definitions
NameChecks(fn, names, defined) ==
    IF names = <<>> THEN <<>>
    ELSE UndefinedLines(fn, Head(names), defined)
             \o NameChecks(fn, Tail(names), defined)

StructOutput(u, fn) ==
    CASE u.parse = "ok" -> StructWalk(fn, <<u.tree>>)
      [] u.parse = "SyntaxError" -> <<Obs(fn, <<"SYNTAX_ERROR">>)>>
      [] OTHER -> <<>>

ErrorOutput(u, fn) ==
    CASE u.parse = "ok" ->
             NameChecks(fn, UsedNamesOf(u.tree), DefinedNamesOf(u.tree))
                 \o ErrorWalk(fn, <<u.tree>>)
      [] u.parse = "SyntaxError" -> <<Obs(fn, <<"SYNTAX_ERROR">>)>>
      [] OTHER -> <<>>

----------------------------------------------------------------------------
(* proofofconcept/jobs/reducer.py                                           *)

Line2(f, v) == f \o <<TAB>> \o v

\* lines this reducer decodes, and lines on which it raises ValueError:
\* blank, one field, three fields, a value that is not an integer
PocLines ==
    { Line2(<<"a">>, <<"1">>),
      Line2(<<"a">>, <<"2">>),
      Line2(<<"b">>, <<"1">>),
      <<>>,
      <<"a">>,
      Line3(<<"a">>, <<"X">>, <<"1">>),
      Line2(<<"b">>, <<"z">>) }

PocStreams == UNION { [1..n -> PocLines] : n \in 0..MaxLines }

PocInit ==
    /\ pstdin \in PocStreams
    /\ ppos = 1
    /\ current_file = None
    /\ pcount = 0
    /\ pstdout = <<>>
    /\ ppc = "loop"
    /\ filename = <<>>
    /\ ReducerIdle
    /\ MappersIdle
    /\ LintIdle
    /\ CategorizerIdle

\* print(f"{current_file}\t{count}")
PocRecord(file, total) == Line2(file, IntStr(total))

\* the lines printed when the file changes: if current_file is not None
PocFlush(file, total) == IF file # None THEN <<PocRecord(file, total)>> ELSE <<>>

\* file, value = line.strip().split("\t") raises ValueError unless the line
\* has exactly two fields
PocUnpackRaises ==
    /\ ppc = "loop"
    /\ ppos <= Len(pstdin)
    /\ Len(Split(Strip(pstdin[ppos]), TAB)) # 2
    /\ ppc' = "crashed"
    /\ UNCHANGED <<pstdin, ppos, current_file, pcount, pstdout,
                   rvars, mvars, lvars, cvars>>

\* the file changes (the pending record is printed, the state replaced) or
\* not, and then int(value) raises ValueError
PocIntRaises ==
    /\ ppc = "loop"
    /\ ppos <= Len(pstdin)
    /\ LET parts == Split(Strip(pstdin[ppos]), TAB)
       IN  /\ Len(parts) = 2
           /\ ~IsInt(parts[2])
           /\ IF current_file # parts[1]
              THEN /\ pstdout' = pstdout \o PocFlush(current_file, pcount)
                   /\ current_file' = parts[1]
                   /\ pcount' = 0
              ELSE UNCHANGED <<pstdout, current_file, pcount>>
    /\ ppc' = "crashed"
    /\ UNCHANGED <<pstdin, ppos, rvars, mvars, lvars, cvars>>

\* one iteration of the loop that raises nothing
PocReadLine ==
    /\ ppc = "loop"
    /\ ppos <= Len(pstdin)
    /\ LET parts == Split(Strip(pstdin[ppos]), TAB)
       IN  /\ Len(parts) = 2
           /\ IsInt(parts[2])
           /\ IF current_file # parts[1]
              THEN /\ pstdout' = pstdout \o PocFlush(current_file, pcount)
                   /\ current_file' = parts[1]
                   /\ pcount' = IntVal(parts[2])
              ELSE /\ pcount' = pcount + IntVal(parts[2])
                   /\ UNCHANGED <<pstdout, current_file>>
    /\ ppos' = ppos + 1
    /\ UNCHANGED <<pstdin, ppc, rvars, mvars, lvars, cvars>>

\* end of input: if current_file is not None: print(...)
PocEndOfInput ==
    /\ ppc = "loop"
    /\ ppos > Len(pstdin)
    /\ pstdout' = pstdout \o PocFlush(current_file, pcount)
    /\ ppc' = "done"
    /\ UNCHANGED <<pstdin, ppos, current_file, pcount, rvars, mvars, lvars, cvars>>

PocNext == PocUnpackRaises \/ PocIntRaises \/ PocReadLine \/ PocEndOfInput

SpecPocReducer == PocInit /\ [][PocNext]_vars

----------------------------------------------------------------------------
(* Reference notions for the reducer-variants claim: the file-keyed reducer *)
(* against the (file, tag)-keyed one run on the same lines with one         *)
(* constant tag inserted as second field.                                   *)

RECURSIVE JoinTab(_)
JoinTab(parts) ==
    IF Len(parts) = 1 THEN parts[1] ELSE parts[1] \o <<TAB>> \o JoinTab(Tail(parts))

\* the line with the tag inserted after its first field; a blank line stays
\* blank
WithTag(raw) ==
    LET parts == Split(Strip(raw), TAB)
    IN  IF Strip(raw) = <<>> THEN <<>>
        ELSE JoinTab(<<parts[1], <<"T">>>> \o Tail(parts))

\* the record with its tag field removed
WithoutTag(rec) ==
    LET parts == Split(rec, TAB) IN Line2(parts[1], parts[3])

RECURSIVE ReduceAll(_, _)
\* the (file, tag)-keyed reducer's loop over lines, from state st
ReduceAll(st, lines) ==
    IF lines = <<>> THEN st ELSE ReduceAll(ReduceLine(st, Head(lines)), Tail(lines))

\* what the (file, tag)-keyed reducer prints for lines
Reduced(lines) ==
    LET st == ReduceAll([key |-> None, count |-> 0, out |-> <<>>], lines)
    IN  Emit(st.out, st.key, st.count)

\* C18: the file-keyed reducer behaves as the (file, tag)-keyed reducer with
\* the key replaced by the file alone: a blank line, a line that does not
\* split into two fields and a line whose count is not an integer are dropped
\* silently, the remaining lines are aggregated, and no error is surfaced.
C18_VariantsAgree ==
    /\ ppc # "crashed"
    /\ ppc = "done" =>
           pstdout = [i \in 1..Len(Reduced([j \in 1..Len(pstdin) |-> WithTag(pstdin[j])])) |->
                         WithoutTag(Reduced([j \in 1..Len(pstdin) |-> WithTag(pstdin[j])])[i])]

\* on input made only of two-field lines with integer counts the two reducers
\* do agree
C18_AgreeOnDecodable ==
    (\A j \in 1..Len(pstdin) :
         /\ Len(Split(Strip(pstdin[j]), TAB)) = 2
         /\ IsInt(Split(Strip(pstdin[j]), TAB)[2])) =>
        /\ ppc # "crashed"
        /\ ppc = "done" =>
               pstdout = [i \in 1..Len(Reduced([j \in 1..Len(pstdin) |-> WithTag(pstdin[j])])) |->
                             WithoutTag(Reduced([j \in 1..Len(pstdin) |-> WithTag(pstdin[j])])[i])]

----------------------------------------------------------------------------
(* Reference notions for the handler and pass claims                        *)

\* a block that holds nothing but pass statements
OnlyPass(block) ==
    block # <<>> /\ \A i \in 1..Len(block) : block[i].kind = "Pass"

\* the exception handlers of a tree whose body does no real work
IdleHandlers(tree) ==
    {i \in 1..Len(NodesOf(tree)) :
        NodesOf(tree)[i].kind = "ExceptHandler" /\ OnlyPass(NodesOf(tree)[i].body)}

\* the blocks of a node: its body and, for a compound statement with an
\* else branch, its orelse
BlocksOf(node) ==
    <<node.body>> \o (IF node.kind \in {"If", "For", "While"} THEN <<node.post>> ELSE <<>>)

\* how many blocks of a tree consist of a single pass statement
SolePassBlocks(tree) ==
    Cardinality({<<i, b>> \in (1..Len(NodesOf(tree))) \X (1..2) :
                    /\ b <= Len(BlocksOf(NodesOf(tree)[i]))
                    /\ Len(BlocksOf(NodesOf(tree)[i])[b]) = 1
                    /\ BlocksOf(NodesOf(tree)[i])[b][1].kind = "Pass"})

\* C19: for every exception handler whose body is only the placeholder
\* statement pass the error extractor emits one ERROR_EMPTY_EXCEPT record,
\* whether or not ERROR_BARE_EXCEPT is also emitted for that handler.
C19_EmptyHandlerDetected ==
    (epc = "done" /\ unit.parse = "ok") =>
        CountTag(eout, <<"ERROR_EMPTY_EXCEPT">>) = Cardinality(IdleHandlers(unit.tree))

\* C20: ERROR_USELESS_PASS is emitted for a pass statement only when that
\* statement is the entire body of its enclosing block; a pass that appears
\* alongside other statements in the same body is not flagged.
C20_UselessPassOnlyWholeBody ==
    (epc = "done" /\ unit.parse = "ok") =>
        CountTag(eout, <<"ERROR_USELESS_PASS">>) = SolePassBlocks(unit.tree)

----------------------------------------------------------------------------
(* Reference notions for the binding-set claim                              *)

\* the name is bound in the tree by something other than a simple
\* assignment: a for-loop target, a function parameter, an import, a def, a
\* tuple-unpacking target or an augmented assignment
BoundOtherwise(tree, n) ==
    LET nodes == NodesOf(tree)
    IN  \E i \in 1..Len(nodes) :
            \/ /\ nodes[i].kind \in {"For", "AugAssign"}
               /\ nodes[i].pre[1].kind = "Name"
               /\ nodes[i].pre[1].id = n
            \/ nodes[i].kind \in {"arg", "alias", "FunctionDef"} /\ nodes[i].id = n
            \/ /\ nodes[i].kind = "Tuple"
               /\ nodes[i].pre[Len(nodes[i].pre)].kind = "Store"
               /\ \E k \in 1..(Len(nodes[i].pre) - 1) :
                      nodes[i].pre[k].kind = "Name" /\ nodes[i].pre[k].id = n

\* every name a tree reads, stores to or binds
AllNames(tree) ==
    LET nodes == NodesOf(tree)
    IN  NamesIn(tree) \cup
        {nodes[i].id :
            i \in {j \in 1..Len(nodes) :
                      nodes[j].kind \in {"arg", "alias", "FunctionDef"}}}

\* C21: a name that is a simple assignment target anywhere in the unit, in
\* any function or nesting level, before or after the read, is never flagged
\* as undefined; a name bound only by other means (for-loop target, function
\* parameter, import, def, tuple unpacking, augmented assignment) that is not
\* a built-in is flagged at every read.
C21_BindingSet ==
    (epc = "done" /\ unit.parse = "ok") =>
        \A n \in AllNames(unit.tree) :
            /\ SimplyAssigned(unit.tree, n) => CountTag(eout, UndefinedTag(n)) = 0
            /\ (BoundOtherwise(unit.tree, n) /\ ~SimplyAssigned(unit.tree, n)
                    /\ n \notin Builtins)
                   => CountTag(eout, UndefinedTag(n)) = Reads(unit.tree, n)

C21_Witness ==
    /\ epc = "done"
    /\ unit = UnitBindings
    /\ filename = <<"unknown">>
    /\ eout = << Obs(filename, UndefinedTag("b")), Obs(filename, UndefinedTag("i")),
                 Obs(filename, UndefinedTag("a")), Obs(filename, UndefinedTag("h")),
                 Obs(filename, UndefinedTag("c")), Obs(filename, UndefinedTag("w")),
                 Obs(filename, <<"WARNING_PRINT_USED">>),
                 Obs(filename, <<"WARNING_PRINT_USED">>) >>
    /\ spc = "done"
    /\ sout = << filename \o <<TAB, "IMPORT", TAB, "a", TAB, "1">>,
                 Obs(filename, <<"FUNCTION_DEF">>), Obs(filename, <<"CONTROL_FOR">>),
                 Obs(filename, <<"DATA_LIST">>),
                 Obs(filename, <<"OPERATOR_", "ADD">>) >>

----------------------------------------------------------------------------
(* Reference notions for the if/else claim                                  *)

\* how many if statement nodes a tree holds, an elif being the if node that
\* is the orelse of its parent
IfCount(tree) == OpCount(tree, "If")

\* how many if statement nodes of a tree have a non-empty orelse
IfWithElseCount(tree) ==
    LET nodes == NodesOf(tree)
    IN  Cardinality({i \in 1..Len(nodes) : nodes[i].kind = "If" /\ nodes[i].post # <<>>})

\* C22: the language-structures extractor emits exactly one CONTROL_IF per if
\* statement node (each elif being its own nested if node) and one additional
\* CONTROL_ELSE exactly for the if nodes that have a non-empty else/elif
\* branch; the number of CONTROL_ELSE records never exceeds the number of
\* CONTROL_IF records.
C22_IfElseCounting ==
    /\ CountTag(sout, <<"CONTROL_ELSE">>) <= CountTag(sout, <<"CONTROL_IF">>)
    /\ (spc = "done" /\ unit.parse = "ok") =>
           /\ CountTag(sout, <<"CONTROL_IF">>) = IfCount(unit.tree)
           /\ CountTag(sout, <<"CONTROL_ELSE">>) = IfWithElseCount(unit.tree)

C22_Witness ==
    /\ spc = "done"
    /\ unit = UnitIfElse
    /\ CountTag(sout, <<"CONTROL_IF">>) = 2
    /\ CountTag(sout, <<"CONTROL_ELSE">>) = 2
    /\ IfCount(unit.tree) = 2

----------------------------------------------------------------------------
(* The reducer run on what the lint adapter prints                          *)

\* every line the adapter can print: a record per diagnostic, or the failure
\* record
AdapterLines == LintRecords \cup {FailedLine(fn) : fn \in Filenames}

AdapterStreams == UNION { [1..n -> AdapterLines] : n \in 0..MaxLines }

\* the reducer is started on a stream of adapter output
LintReduceInit ==
    /\ stdin \in AdapterStreams
    /\ pos = 1
    /\ current_key = None
    /\ current_count = 0
    /\ stdout = <<>>
    /\ rpc = "loop"
    /\ filename = <<>>
    /\ MappersIdle
    /\ LintIdle
    /\ CategorizerIdle
    /\ PocIdle

SpecLintReduce == LintReduceInit /\ [][ReducerNext]_vars

FailedTag == <<"LINT_ERROR_FLAKE8_FAILED">>

\* the line is a failure record of the adapter
IsFailed(line) == TagOf(line) = FailedTag

IsNotFailed(line) == ~IsFailed(line)

\* C23: a record (source_id, LINT_ERROR_FLAKE8_FAILED, description) fed to the
\* reducer is never aggregated and never appears in the reducer's output,
\* because its third field does not decode as an integer: the pending key is
\* never that of a failure record, no output record carries the tag, and the
\* output is that of the input with the failure records deleted.
C23_FailureRecordDropped ==
    /\ \A i \in 1..Len(stdin) : IsFailed(stdin[i]) => ~Decodable(stdin[i])
    /\ current_key # None => current_key[2] # FailedTag
    /\ \A i \in 1..Len(stdout) : IsNotFailed(stdout[i])
    /\ rpc = "done" => stdout = RunRecords(SelectSeq(stdin, IsNotFailed))

C23_Witness ==
    /\ rpc = "done"
    /\ stdin = << Obs(<<"unknown">>, <<"LINT_", "E302">>),
                  FailedLine(<<"unknown">>),
                  Obs(<<"unknown">>, <<"LINT_", "E302">>) >>
    /\ stdout = << Line3(<<"unknown">>, <<"LINT_", "E302">>, <<"2">>) >>

----------------------------------------------------------------------------
(* Reference notions for the idempotence and conservation claims            *)

\* C24: feeding the reducer's own output back into the reducer reproduces
\* that output unchanged, for every input sequence: every output line is a
\* decodable 3-field record and no two adjacent output records share a key.
C24_Idempotent ==
    rpc = "done" =>
        /\ AllDecodable(stdout)
        /\ \A i \in 1..(Len(stdout) - 1) : KeyOf(stdout[i]) # KeyOf(stdout[i + 1])
        /\ Reduced(stdout) = stdout

C24_Witness ==
    /\ rpc = "done"
    /\ stdin = << Line3(<<"a">>, <<"X">>, <<"1">>),
                  Line3(<<"a">>, <<"X">>, <<"2">>),
                  Line3(<<"b">>, <<"Y">>, <<SP, "1", "_", "0">>) >>
    /\ Len(stdout) = 2
    /\ stdout # stdin
    /\ Reduced(stdout) = stdout

\* the sum of the counts of all lines, which must all decode
TotalOf(lines) == SumCounts(lines, 1..Len(lines))

\* C25: for every input sequence, grouped or not, the sum of the counts over
\* all emitted records equals the sum of the counts over all decodable input
\* lines, and for each key the sum over that key's emitted records equals the
\* sum over that key's decodable input lines.
C25_CountConservation ==
    rpc = "done" =>
        LET read == SelectSeq(stdin, Decodable)
        IN  /\ AllDecodable(stdout)
            /\ TotalOf(stdout) = TotalOf(read)
            /\ \A k \in {KeyOf(read[i]) : i \in 1..Len(read)}
                        \cup {KeyOf(stdout[i]) : i \in 1..Len(stdout)} :
                   KeyTotal(stdout, k) = KeyTotal(read, k)

C25_Witness ==
    /\ rpc = "done"
    /\ stdin = << Line3(<<"a">>, <<"X">>, <<"1">>),
                  Line3(<<"b">>, <<"X">>, <<"1">>),
                  Line3(<<"a">>, <<"X">>, <<"2">>) >>
    /\ Len(stdout) = 3
    /\ KeyTotal(stdout, <<<<"a">>, <<"X">>>>) = 3
    /\ TotalOf(stdout) = 4

====
